---- MODULE Spec2Model ----
(***************************************************************************)
(* Download job pipeline of src/core/download_manager.py:                  *)
(* CircuitBreaker, RateLimiter and the EnhancedDownloadManager worker pool *)
(* with the durable job records of src/database/database.py.               *)
(*                                                                         *)
(* The manager runs on one asyncio event loop: a task runs without         *)
(* interleaving from one suspension point (a real await: queue.get, a      *)
(* store call, asyncio.sleep, run_in_executor) to the next.  Each action   *)
(* below is one such run of one task.                                      *)
(*                                                                         *)
(* Time is time.time() read as a whole number of ticks.                    *)
(*                                                                         *)
(* Scope: the store calls succeed (the store is a consumed capability),    *)
(* except the insert of create_download_job under SpecCallers and the      *)
(* calls that raise under SpecFaults; check_resources() raises only under  *)
(* SpecFaults and SpecLiveFaults; one add_download_job call, one           *)
(* cancel_download call and one start() or stop() call are in progress at  *)
(* a time; the durations of the sleeps, and the second that                *)
(* check_resources() blocks in psutil.cpu_percent, are not measured        *)
(* against the clock (a sleeping worker wakes at some later step);         *)
(* asyncio.CancelledError is a BaseException (Python 3.8 or later).        *)
(*                                                                         *)
(* Specifications: Spec (the manager as the plugin drives it), SpecLife    *)
(* (the same with start() and stop() calls), SpecCallers (one worker, any  *)
(* priority), SpecBackoff (the retry loop of one job), SpecCB and SpecRL   *)
(* (a CircuitBreaker and a RateLimiter on their own), SpecQuery            *)
(* (get_pending_jobs), SpecCleanup (cleanup_old_files), SpecNotify         *)
(* (progress subscribers), SpecResources (check_resources on its own),     *)
(* SpecGates (the manager with a breaker that opens at the first exhausted *)
(* job), SpecFaults (the same with gate checks, store calls and            *)
(* subscribers that raise), SpecLive and SpecLiveFaults (fair scheduling   *)
(* under a clock that never stops, without and with a raising              *)
(* check_resources), SpecHang (fair scheduling in which an executor call   *)
(* need not return), SpecCounters (increment_user_downloads calls on one   *)
(* user document), SpecMonitor (the batch monitor of                       *)
(* src/plugins/production_pro.py over the job records) and SpecConnect     *)
(* (DatabaseManager.connect, disconnect and _ensure_connection).           *)
(***************************************************************************)
EXTENDS Integers, Sequences, FiniteSets, TLC

(***************************************************************************)
(* Configuration.  failure_threshold, recovery_timeout, max_requests,      *)
(* time_window, max_concurrent_downloads and max_retries are constructor   *)
(* parameters / field defaults of the code (defaults 5, 60, 10, 60, 3, 3); *)
(* the code is parametric in them and the model instantiates them small.   *)
(***************************************************************************)
failure_threshold == 2

recovery_timeout == 0

max_requests == 1

time_window == 1

max_concurrent_downloads == 2

max_retries == 1

\* ResourceMonitor ceilings (defaults 80.0 and 90.0), in the unit of the
\* samples below.
max_memory_percent == 2

max_disk_percent == 3

\* The breaker threshold and the limiter's max_requests of the manager
\* whose gates are explored.
GateThreshold == 1

GateRequests == 2

\* Number of add_download_job calls explored together with failures of
\* the gates, the store and the subscriber.
MaxFaultJobs == 2

\* Largest memory or disk percentage sampled, and largest ceiling a
\* stand-alone ResourceMonitor is constructed with.
MaxPercent == 4

MaxCeiling == 5

\* Number of add_download_job calls explored.
MaxJobs == 3

\* Number of cancel_download calls explored.
MaxCancels == 1

\* Number of start() and of stop() calls explored.
MaxStartCalls == 2

MaxStopCalls == 2

\* Largest max_retries of a job whose retry loop is explored on its own.
MaxJobRetries == 6

\* Latest modification time of a file found under ./DOWNLOADS at the start.
MaxMtime == 1

\* Distinct progress subscribers, and registrations made.
MaxCallbacks == 2

MaxRegistered == 3

\* Largest limit passed to get_pending_jobs.
MaxQueryLimit == 3

\* Last clock reading explored.
MaxTime == 1

\* Stand-alone CircuitBreaker: largest failure_threshold and
\* recovery_timeout it is constructed with, and the number of calls made.
MaxThreshold == 3

MaxRecovery == 1

MaxCalls == 5

\* Stand-alone RateLimiter: largest max_requests and time_window it is
\* constructed with.
MaxLimit == 2

MaxWindow == 2

\* Last clock reading explored for a stand-alone breaker or limiter.
MaxCallTime == 4

VARIABLES
    \* ---- shared clock
    now,                \* time.time()
    \* ---- CircuitBreaker instance
    circuit_breaker,    \* the fields of the CircuitBreaker object
    \* ---- RateLimiter instance
    rate_limiter,       \* the fields of the RateLimiter object
    \* ---- EnhancedDownloadManager
    running,            \* _running
    download_queue,     \* asyncio.Queue of jobs (job ids)
    active_downloads,   \* keys of the active_downloads dict
    wpc,                \* per worker task: where it is suspended
    wjob,               \* per worker task: the job it dequeued (0: none)
    wattempt,           \* per worker task: loop variable `attempt`
    werror,             \* per worker task: local `error_message`
    \* ---- durable store (download_jobs collection)
    jobs_db,            \* job id -> record, or NoRecord
    \* ---- callers of the public contract
    next_job,           \* number of ids handed out by uuid4 so far
    add_pc,             \* add_download_job suspended in create_download_job (0: none)
    cancel_pc,          \* cancel_download suspended in update_download_job (0: none)
    cancels,            \* number of cancel_download calls made so far
    \* ---- observation (history) variables, not program state
    cancel_obs,         \* what the last cancel_download call saw and left
    exec_obs,           \* job id -> [calls, last]: executor invocations and last outcome
    cb_trace,           \* stand-alone breaker: operations called so far
    cb_prev,            \* stand-alone breaker: breaker before the last call
    cb_ret,             \* stand-alone breaker: value returned by the last call
    cb_at,              \* stand-alone breaker: clock reading of the last call
    rl_grants,          \* stand-alone limiter: timestamps of all grants so far
    rl_ret,             \* stand-alone limiter: value returned by the last acquire
    \* ---- EnhancedDownloadManager, continued
    pool_size,          \* self.max_concurrent_downloads
    job_obj,            \* job id -> fields of the DownloadJob object
    workers_len,        \* len(self._workers)
    stop_pc,            \* stop(): "idle", or "gather" while it awaits the workers
    executor_down,      \* self.executor.shutdown() has been called
    orphan_threads,     \* jobs whose executor thread runs on after its task was cancelled
    orphan_writes,      \* store updates issued by a task cancelled before they returned
    progress_callbacks, \* self.progress_callbacks
    \* ---- durable store (users and download_history collections)
    user_stats,         \* counters of the user document
    download_history,   \* job id -> number of history rows
    \* ---- file system under ./DOWNLOADS
    fs_root,            \* the directory exists
    fs_files,           \* the regular files below it
    \* ---- observation (history) variables, continued
    sleep_obs,          \* job id -> backoff sleeps asked for, in seconds
    life_obs,           \* start() and stop() calls made so far, and the last to return
    pending_ret,        \* what the last get_pending_jobs call returned
    cleanup_obs,        \* the last cleanup_old_files call: files before and after, value returned
    notify_obs,         \* the last _notify_progress call
    \* ---- ResourceMonitor instance
    resource_monitor,   \* the fields of the ResourceMonitor object
    \* ---- observation (history) variables, continued
    res_obs,            \* stand-alone monitor: the last check_resources call
    \* ---- users collection, as increment_user_downloads reads and writes it
    today,              \* datetime.utcnow().date(), in days
    user_daily,         \* daily_downloads and daily_downloads_reset of the user
    inc_calls,          \* increment_user_downloads calls: where each one stands
    \* ---- monitor_download_progress task of one batch
    monitor,            \* its position, its locals, and what it handed to the upload step
    \* ---- DatabaseManager instance
    dbm,                \* client, db, _collections, holder of _connection_lock
    conn,               \* connect() / _ensure_connection() calls: where each one stands
    wgates,             \* per worker task: gate calls of the loop iteration under way
    job_trace           \* job id -> what _process_download_job did for it, in order

vars == << now, circuit_breaker, rate_limiter, running, download_queue,
           active_downloads, wpc, wjob, wattempt, werror, jobs_db, next_job,
           add_pc, cancel_pc, cancels, cancel_obs, exec_obs, cb_trace, cb_prev,
           cb_ret, cb_at, rl_grants, rl_ret, pool_size, job_obj, workers_len,
           stop_pc, executor_down, orphan_threads, orphan_writes,
           progress_callbacks, user_stats, download_history, fs_root, fs_files,
           sleep_obs, life_obs, pending_ret, cleanup_obs, notify_obs,
           resource_monitor, res_obs, wgates, job_trace, today, user_daily,
           inc_calls, monitor, dbm, conn >>

\* Lifecycle state of the manager beyond _running.
life_vars == << workers_len, stop_pc, executor_down, orphan_threads,
               orphan_writes, life_obs >>

fs_vars == << fs_root, fs_files, cleanup_obs >>

cbk_vars == << progress_callbacks, notify_obs >>

res_vars == << resource_monitor, res_obs >>

usr_vars == << today, user_daily, inc_calls >>

\* State of the components explored on their own.
mon_vars == << monitor >>

dbm_vars == << dbm, conn >>

side_vars == << usr_vars, mon_vars, dbm_vars >>

\* Counters of the store and backoff sleeps.
stats_vars == << user_stats, download_history, sleep_obs >>

\* What no worker step touches ...
caller_aux == << pool_size, job_obj, life_vars, pending_ret, fs_vars, cbk_vars,
                res_vars, side_vars, side_vars >>

\* ... and what only worker steps touch.
worker_aux == << stats_vars, wgates, job_trace >>

aux_vars == << caller_aux, worker_aux >>

mgr_vars == << running, download_queue, active_downloads, wpc, wjob, wattempt,
               werror, jobs_db, next_job, add_pc, cancel_pc, cancels,
               cancel_obs, exec_obs, aux_vars >>

cb_obs_vars == << cb_trace, cb_prev, cb_ret, cb_at >>

rl_obs_vars == << rl_grants, rl_ret >>

NoTime == -1

NoJob == 0

Workers == 1..max_concurrent_downloads

JobIds == 1..MaxJobs

(***************************************************************************)
(* CircuitBreaker (download_manager.py 39-72)                              *)
(***************************************************************************)
\* __init__ (lines 42-47)
CircuitBreakerNew(threshold, timeout) ==
    [failure_threshold |-> threshold, recovery_timeout |-> timeout,
     failure_count |-> 0, last_failure_time |-> NoTime, state |-> "CLOSED"]

\* can_execute(): the value returned at time t
CanExecuteRet(cb, t) ==
    IF cb.state = "CLOSED" THEN TRUE
    ELSE IF cb.state = "OPEN"
         THEN t - cb.last_failure_time > cb.recovery_timeout
         ELSE TRUE

\* Variant: eligible already at the timeout instant (>= for >).
CanExecuteStateAtTimeout(cb, t) ==
    IF cb.state = "OPEN" /\ t - cb.last_failure_time >= cb.recovery_timeout
    THEN [cb EXCEPT !.state = "HALF_OPEN"]
    ELSE cb

\* can_execute(): the breaker it leaves
CanExecuteState(cb, t) ==
    IF cb.state = "OPEN" /\ t - cb.last_failure_time > cb.recovery_timeout
    THEN [cb EXCEPT !.state = "HALF_OPEN"]
    ELSE cb

\* Variant: a success closes the breaker but keeps the failure count.
RecordSuccessKeepsCount(cb) ==
    [cb EXCEPT !.state = "CLOSED"]

RecordSuccess(cb) ==
    [cb EXCEPT !.failure_count = 0, !.state = "CLOSED"]

\* Variant: opens one failure late (> for >=).
RecordFailureLate(cb, t) ==
    LET c1 == [cb EXCEPT !.failure_count = @ + 1, !.last_failure_time = t]
    IN  IF c1.failure_count > cb.failure_threshold
        THEN [c1 EXCEPT !.state = "OPEN"]
        ELSE c1

\* Variant: a failure during the trial starts a fresh count.
RecordFailureTrialRestarts(cb, t) ==
    LET n  == IF cb.state = "HALF_OPEN" THEN 1 ELSE cb.failure_count + 1
        c1 == [cb EXCEPT !.failure_count = n, !.last_failure_time = t]
    IN  IF c1.failure_count >= cb.failure_threshold
        THEN [c1 EXCEPT !.state = "OPEN"]
        ELSE c1

\* Variant: a failure is counted but not stamped.
RecordFailureNoStamp(cb, t) ==
    LET c1 == [cb EXCEPT !.failure_count = @ + 1]
    IN  IF c1.failure_count >= cb.failure_threshold
        THEN [c1 EXCEPT !.state = "OPEN"]
        ELSE c1

\* record_failure() at time t (lines 66-72)
RecordFailure(cb, t) ==
    LET c1 == [cb EXCEPT !.failure_count = @ + 1, !.last_failure_time = t]
    IN  IF c1.failure_count >= cb.failure_threshold
        THEN [c1 EXCEPT !.state = "OPEN"]
        ELSE c1

(***************************************************************************)
(* RateLimiter (download_manager.py 75-99)                                 *)
(***************************************************************************)
\* __init__ (lines 78-81)
RateLimiterNew(limit, window) ==
    [max_requests |-> limit, time_window |-> window, requests |-> << >>]

\* line 88: keep the requests younger than the window
PruneRequests(rl, t) ==
    SelectSeq(rl.requests, LAMBDA req_time : t - req_time < rl.time_window)

\* Variant: grants while the count is at the maximum (<= for <).
AcquireRetOneMore(rl, t) ==
    Len(PruneRequests(rl, t)) <= rl.max_requests

\* acquire(): the value returned at time t
AcquireRet(rl, t) ==
    Len(PruneRequests(rl, t)) < rl.max_requests

\* acquire(): the limiter it leaves
AcquireState(rl, t) ==
    IF AcquireRet(rl, t)
    THEN [rl EXCEPT !.requests = Append(PruneRequests(rl, t), t)]
    ELSE [rl EXCEPT !.requests = PruneRequests(rl, t)]

(***************************************************************************)
(* ResourceMonitor (download_manager.py 102-125).  A percentage is a whole *)
(* number of the model's unit; psutil supplies the samples.                *)
(***************************************************************************)
\* __init__ (lines 105-107)
ResourceMonitorNew(max_memory, max_disk) ==
    [max_memory_percent |-> max_memory, max_disk_percent |-> max_disk]

Percents == 0..MaxPercent

\* Variant: a value equal to its ceiling is still admissible (<= for <).
CheckResourcesAtCeiling(rm, memory_percent, disk_percent) ==
    [memory_percent |-> memory_percent, disk_percent |-> disk_percent,
     can_download |-> /\ memory_percent <= rm.max_memory_percent
                      /\ disk_percent <= rm.max_disk_percent]

\* check_resources() (lines 109-125) for the sampled values; the fields
\* derived from the same samples (available, free, cpu) are left out.
CheckResources(rm, memory_percent, disk_percent) ==
    [memory_percent |-> memory_percent, disk_percent |-> disk_percent,
     can_download |-> /\ memory_percent < rm.max_memory_percent
                      /\ disk_percent < rm.max_disk_percent]

(***************************************************************************)
(* Initial state: after construction of the manager (lines 143-156) and of *)
(* a CircuitBreaker and a RateLimiter (lines 42-47, 78-81).                *)
(***************************************************************************)
NoRecord == [status |-> "ABSENT", error_message |-> "None", retry_count |-> 0]

NoCancel == [job |-> NoJob, seen |-> "NONE", status |-> "NONE",
             error_message |-> "None", active |-> FALSE, returned |-> "none"]

NoExec == [calls |-> 0, last |-> "none"]

\* Fields of a DownloadJob object not yet constructed.
NoJobObj == [priority |-> 0, max_retries |-> 0, created_at |-> 0]

NoCleanup == [called |-> FALSE, max_age_hours |-> 0, at |-> NoTime,
              before |-> {}, unlinked |-> {}, left |-> {},
              returned_none |-> FALSE, returned |-> 0, again |-> FALSE]

NoPending == [called |-> FALSE, limit |-> 0,
              seen |-> [j \in JobIds |-> "ABSENT"], jobs |-> << >>]

NoNotify == [called |-> FALSE, callbacks |-> << >>, raised |-> {},
             invoked |-> << >>, propagated |-> FALSE, raised_before |-> {}]

NoRes == [called |-> FALSE, memory_percent |-> 0, disk_percent |-> 0,
          can_download |-> FALSE]

\* No gate called yet in this loop iteration.
NoGates == << >>

\* Number of increment_user_downloads calls explored on their own, and the
\* last day the calendar reaches.
MaxIncCalls == 3

MaxDay == 1

IncCalls == 1..MaxIncCalls

\* An increment_user_downloads call not yet made.
NoIncCall ==
    [pc |-> "idle", failed |-> FALSE, date |-> 0,
     total_downloads |-> 0, total_failed_downloads |-> 0]

\* The user document as the plugin created it (models.py: counters 0,
\* daily_downloads_reset the day of creation) and no call made.
UsersInit ==
    /\ today = 0
    /\ user_daily = [daily_downloads |-> 0, daily_downloads_reset |-> 0]
    /\ inc_calls = [c \in IncCalls |-> NoIncCall]

\* Jobs of the batch a monitor task follows (its job_ids list is 1..MaxBatch),
\* and the number of times one job is handed to the upload step before the
\* exploration stops counting.
MaxBatch == 2

MaxHanded == 2

BatchIds == 1..MaxBatch

\* No monitor task has been created.
NoMonitor ==
    [pc |-> "unborn", idx |-> 0, completed_jobs |-> 0, failed_jobs |-> 0,
     current_completed |-> 0, current_failed |-> 0,
     handed |-> [j \in BatchIds |-> 0],
     seen_completed |-> [j \in BatchIds |-> FALSE]]

MonitorInit == monitor = NoMonitor

\* Tasks that call connect() or a store method, the calls they make in all,
\* and max_retries of connect() (database.py 34).
MaxCallers == 2

MaxConnCalls == 3

connect_max_retries == 3

Callers == 1..MaxCallers

NoCaller == 0

\* A task that is in no connect() call.
IdleCaller == [pc |-> "idle", attempt |-> 0]

\* DatabaseManager.__init__ (database.py 20-26): client and db None, _collections
\* empty, the lock free; no call made yet.
NewDatabaseManager ==
    [client |-> FALSE, db |-> FALSE, collections |-> FALSE, lock |-> NoCaller,
     calls |-> 0, last |-> "none"]

ConnInit ==
    /\ dbm = NewDatabaseManager
    /\ conn = [c \in Callers |-> IdleCaller]

SideInit == UsersInit /\ MonitorInit /\ ConnInit

\* The rest of the manager's construction (lines 143-156), the file system
\* and the store before the first call.
ExtInit ==
    /\ job_obj = [j \in JobIds |-> NoJobObj]
    /\ workers_len = 0
    /\ stop_pc = "idle"
    /\ executor_down = FALSE
    /\ orphan_threads = {}
    /\ orphan_writes = {}
    /\ progress_callbacks = << >>
    /\ user_stats = [total_downloads |-> 0, total_failed_downloads |-> 0]
    /\ download_history = [j \in JobIds |-> 0]
    /\ fs_root = TRUE
    /\ fs_files = {}
    /\ sleep_obs = [j \in JobIds |-> << >>]
    /\ life_obs = [starts |-> 0, stops |-> 0, last |-> "none"]
    /\ pending_ret = NoPending
    /\ cleanup_obs = NoCleanup
    /\ notify_obs = NoNotify
    /\ res_obs = NoRes
    /\ SideInit
    /\ wgates = [w \in Workers |-> NoGates]
    /\ job_trace = [j \in JobIds |-> << >>]

ManagerInit ==
    /\ running = FALSE
    /\ download_queue = << >>
    /\ active_downloads = {}
    /\ wpc = [w \in Workers |-> "unborn"]
    /\ wjob = [w \in Workers |-> NoJob]
    /\ wattempt = [w \in Workers |-> 0]
    /\ werror = [w \in Workers |-> "None"]
    /\ jobs_db = [j \in JobIds |-> NoRecord]
    /\ next_job = 0
    /\ add_pc = NoJob
    /\ cancel_pc = NoJob
    /\ cancels = 0
    /\ cancel_obs = NoCancel
    /\ exec_obs = [j \in JobIds |-> NoExec]
    /\ ExtInit

ObsInit ==
    /\ cb_trace = << >>
    /\ cb_prev = circuit_breaker
    /\ cb_ret = "none"
    /\ cb_at = 0
    /\ rl_grants = << >>
    /\ rl_ret = "none"

Init ==
    /\ now = 0
    /\ circuit_breaker = CircuitBreakerNew(failure_threshold, recovery_timeout)
    /\ rate_limiter = RateLimiterNew(max_requests, time_window)
    /\ ManagerInit
    /\ pool_size = max_concurrent_downloads
    /\ resource_monitor = ResourceMonitorNew(max_memory_percent, max_disk_percent)
    /\ ObsInit

\* time.time() is non-decreasing: the clock advances between any two steps.
Advance(limit) ==
    /\ now < limit
    /\ now' = now + 1
    /\ UNCHANGED << circuit_breaker, rate_limiter, mgr_vars, cb_obs_vars, rl_obs_vars >>

Tick == Advance(MaxTime)

CallTick == Advance(MaxCallTime)

(***************************************************************************)
(* A stand-alone CircuitBreaker, constructed with any threshold and        *)
(* timeout and driven by arbitrary calls at arbitrary times.               *)
(***************************************************************************)
InitCB ==
    /\ now = 0
    /\ \E n \in 1..MaxThreshold : \E d \in 0..MaxRecovery :
          circuit_breaker = CircuitBreakerNew(n, d)
    /\ rate_limiter = RateLimiterNew(max_requests, time_window)
    /\ ManagerInit
    /\ pool_size = max_concurrent_downloads
    /\ resource_monitor = ResourceMonitorNew(max_memory_percent, max_disk_percent)
    /\ ObsInit

CallCanExecute ==
    /\ Len(cb_trace) < MaxCalls
    /\ cb_trace' = Append(cb_trace, "can_execute")
    /\ cb_prev' = circuit_breaker
    /\ cb_at' = now
    /\ cb_ret' = IF CanExecuteRet(circuit_breaker, now) THEN "true" ELSE "false"
    /\ circuit_breaker' = CanExecuteState(circuit_breaker, now)
    /\ UNCHANGED << now, rate_limiter, mgr_vars, rl_obs_vars >>

CallRecordSuccess ==
    /\ Len(cb_trace) < MaxCalls
    /\ cb_trace' = Append(cb_trace, "record_success")
    /\ cb_prev' = circuit_breaker
    /\ cb_at' = now
    /\ cb_ret' = "none"
    /\ circuit_breaker' = RecordSuccess(circuit_breaker)
    /\ UNCHANGED << now, rate_limiter, mgr_vars, rl_obs_vars >>

CallRecordFailure ==
    /\ Len(cb_trace) < MaxCalls
    /\ cb_trace' = Append(cb_trace, "record_failure")
    /\ cb_prev' = circuit_breaker
    /\ cb_at' = now
    /\ cb_ret' = "none"
    /\ circuit_breaker' = RecordFailure(circuit_breaker, now)
    /\ UNCHANGED << now, rate_limiter, mgr_vars, rl_obs_vars >>

NextCB ==
    \/ CallTick
    \/ CallCanExecute
    \/ CallRecordSuccess
    \/ CallRecordFailure

SpecCB == InitCB /\ [][NextCB]_vars

(***************************************************************************)
(* A stand-alone RateLimiter, constructed with any limit and window and    *)
(* driven by acquire() calls at arbitrary non-decreasing times.            *)
(***************************************************************************)
InitRL ==
    /\ now = 0
    /\ circuit_breaker = CircuitBreakerNew(failure_threshold, recovery_timeout)
    /\ \E n \in 1..MaxLimit : \E d \in 1..MaxWindow :
          rate_limiter = RateLimiterNew(n, d)
    /\ ManagerInit
    /\ pool_size = max_concurrent_downloads
    /\ resource_monitor = ResourceMonitorNew(max_memory_percent, max_disk_percent)
    /\ ObsInit

CallAcquire ==
    /\ rl_ret' = IF AcquireRet(rate_limiter, now) THEN "true" ELSE "false"
    /\ rate_limiter' = AcquireState(rate_limiter, now)
    /\ rl_grants' = IF AcquireRet(rate_limiter, now)
                    THEN Append(rl_grants, now) ELSE rl_grants
    /\ UNCHANGED << now, circuit_breaker, mgr_vars, cb_obs_vars >>

NextRL ==
    \/ CallTick
    \/ CallAcquire

SpecRL == InitRL /\ [][NextRL]_vars

(***************************************************************************)
(* Properties of the stand-alone CircuitBreaker (under SpecCB)             *)
(***************************************************************************)
LastCall == IF cb_trace = << >> THEN "none" ELSE cb_trace[Len(cb_trace)]

OnlyFailuresSoFar ==
    \A i \in 1..Len(cb_trace) : cb_trace[i] = "record_failure"

\* C5: on a fresh breaker, after k record_failure() calls and nothing else,
\* the state is CLOSED while k < failure_threshold and OPEN from the
\* failure_threshold-th failure on.
C5_OpensAtThreshold ==
    OnlyFailuresSoFar =>
        circuit_breaker.state =
            IF Len(cb_trace) >= circuit_breaker.failure_threshold
            THEN "OPEN" ELSE "CLOSED"

C5_Witness ==
    /\ OnlyFailuresSoFar
    /\ Len(cb_trace) = circuit_breaker.failure_threshold
    /\ Len(cb_trace) > 1
    /\ cb_prev.state = "CLOSED"
    /\ circuit_breaker.state = "OPEN"

\* C6: record_success() called in any state and with any failure_count
\* leaves failure_count = 0 and state = CLOSED.
C6_RecordSuccessResets ==
    LastCall = "record_success" =>
        /\ circuit_breaker.failure_count = 0
        /\ circuit_breaker.state = "CLOSED"

C6_Witness ==
    /\ LastCall = "record_success"
    /\ cb_prev.state = "OPEN"
    /\ cb_prev.failure_count > 0
    /\ circuit_breaker.state = "CLOSED"

\* C7: can_execute() on an OPEN breaker returns false and leaves it OPEN
\* while now - last_failure_time <= recovery_timeout (the timeout instant
\* included), and returns true and moves it to HALF_OPEN when
\* now - last_failure_time > recovery_timeout; OPEN -> HALF_OPEN happens by
\* no other operation.
C7_OpenToHalfOpen ==
    /\ (LastCall = "can_execute" /\ cb_prev.state = "OPEN") =>
          IF cb_at - cb_prev.last_failure_time > cb_prev.recovery_timeout
          THEN /\ cb_ret = "true"
               /\ circuit_breaker = [cb_prev EXCEPT !.state = "HALF_OPEN"]
          ELSE /\ cb_ret = "false"
               /\ circuit_breaker = cb_prev
    /\ (cb_prev.state = "OPEN" /\ circuit_breaker.state = "HALF_OPEN") =>
          LastCall = "can_execute"

C7_Witness ==
    /\ LastCall = "can_execute"
    /\ cb_prev.state = "OPEN"
    /\ cb_at - cb_prev.last_failure_time = cb_prev.recovery_timeout
    /\ cb_ret = "false"
    /\ circuit_breaker.state = "OPEN"

\* C8: in every reachable HALF_OPEN state, can_execute() returns true and
\* changes nothing, record_success() yields CLOSED with failure_count 0, and
\* record_failure() yields OPEN with last_failure_time set to the time of
\* the call.
C8_HalfOpen ==
    cb_prev.state = "HALF_OPEN" =>
        /\ LastCall = "can_execute" =>
              cb_ret = "true" /\ circuit_breaker = cb_prev
        /\ LastCall = "record_success" =>
              circuit_breaker.state = "CLOSED" /\ circuit_breaker.failure_count = 0
        /\ LastCall = "record_failure" =>
              /\ circuit_breaker.state = "OPEN"
              /\ circuit_breaker.last_failure_time = cb_at

C8_Witness ==
    /\ cb_prev.state = "HALF_OPEN"
    /\ LastCall = "record_failure"
    /\ cb_at > cb_prev.last_failure_time
    /\ circuit_breaker.state = "OPEN"

(***************************************************************************)
(* Properties of the stand-alone RateLimiter (under SpecRL)                *)
(***************************************************************************)
\* Grants stamped in the trailing window (t - time_window, t].
GrantsInWindow(t) ==
    Cardinality({i \in 1..Len(rl_grants) :
                    t - rl_grants[i] < rate_limiter.time_window
                    /\ rl_grants[i] <= t})

\* C9: for every sequence of acquire() calls at non-decreasing times,
\* bursts included, the grants stamped in any trailing window of
\* time_window ticks, (t - time_window, t], number at most max_requests.
C9_WindowBound ==
    \A t \in 0..now : GrantsInWindow(t) <= rate_limiter.max_requests

C9_Witness ==
    /\ rl_ret = "false"
    /\ GrantsInWindow(now) = rate_limiter.max_requests
    /\ Len(rl_grants) > rate_limiter.max_requests

(***************************************************************************)
(* Durable store: download_jobs collection (database.py 223-260)           *)
(***************************************************************************)
\* create_download_job: insert_one of a fresh DownloadJob (models.py 110-114)
NewJobRecord == [status |-> "PENDING", error_message |-> "None", retry_count |-> 0]

\* update_download_job(job_id, status=...): $set on the matching document;
\* no document is created when none matches.
SetStatus(db, j, st) ==
    IF db[j].status = "ABSENT" THEN db
    ELSE [db EXCEPT ![j].status = st]

\* update_download_job(job_id, status=..., error_message=...)
SetStatusError(db, j, st, msg) ==
    IF db[j].status = "ABSENT" THEN db
    ELSE [db EXCEPT ![j].status = st, ![j].error_message = msg]

\* Variant: the terminal FAILED write leaves retry_count alone.
SetFailedKeepsRetryCount(db, j, msg, n) ==
    SetStatusError(db, j, "FAILED", msg)

\* update_download_job(job_id, status=FAILED, error_message=..., retry_count=...)
SetFailed(db, j, msg, n) ==
    IF db[j].status = "ABSENT" THEN db
    ELSE [db EXCEPT ![j].status = "FAILED", ![j].error_message = msg,
                    ![j].retry_count = n]

(***************************************************************************)
(* EnhancedDownloadManager: public contract (download_manager.py 158-242)  *)
(***************************************************************************)
\* start() when not running (lines 163-170): spawns max_concurrent_downloads
\* worker tasks and appends them to _workers; each runs to its first
\* queue.get().  Tasks of an earlier start() have ended by then (stop()
\* returns only after them) and stay in _workers.
Start ==
    /\ stop_pc = "idle"
    /\ life_obs.starts < MaxStartCalls
    /\ ~running
    /\ running' = TRUE
    /\ wpc' = [w \in Workers |-> IF w <= pool_size THEN "get" ELSE wpc[w]]
    /\ workers_len' = workers_len + pool_size
    /\ life_obs' = [life_obs EXCEPT !.starts = @ + 1, !.last = "start"]
    /\ UNCHANGED << now, circuit_breaker, rate_limiter, download_queue,
                    active_downloads, wjob, wattempt, werror, jobs_db, next_job,
                    add_pc, cancel_pc, cancels, cancel_obs, exec_obs,
                    cb_obs_vars, rl_obs_vars, pool_size, job_obj, stop_pc,
                    executor_down, orphan_threads, orphan_writes, pending_ret,
                    res_vars, side_vars, fs_vars, cbk_vars, worker_aux >>

\* add_download_job, first part (lines 203-216): a fresh uuid4, the
\* DownloadJob object with the caller's priority and created_at = utcnow()
\* (kept as its rank among the jobs: a later job reads a later microsecond),
\* and create_download_job,
\* whose insert_one either stores the document or raises inside the store
\* (create_download_job then returns False, which the caller does not look
\* at).  `limit` bounds the number of calls, `m` is the job's max_retries.
AddJob(limit, p, m, stored) ==
    /\ add_pc = NoJob
    /\ next_job < limit
    /\ next_job' = next_job + 1
    /\ job_obj' = [job_obj EXCEPT ![next_job + 1] =
                      [priority |-> p, max_retries |-> m,
                       created_at |-> next_job + 1]]
    /\ jobs_db' = IF stored
                  THEN [jobs_db EXCEPT ![next_job + 1] = NewJobRecord]
                  ELSE jobs_db
    /\ add_pc' = next_job + 1
    /\ UNCHANGED << now, circuit_breaker, rate_limiter, running, download_queue,
                    active_downloads, wpc, wjob, wattempt, werror, cancel_pc,
                    cancels, cancel_obs, exec_obs, cb_obs_vars, rl_obs_vars,
                    pool_size, life_vars, pending_ret, res_vars,
                    side_vars, fs_vars, cbk_vars,
                    worker_aux >>

\* add_download_job as the plugin calls it (production_pro.py 107-114):
\* default priority, and the insert succeeds.
AddJobCreate == AddJob(MaxJobs, 0, max_retries, TRUE)

\* add_download_job, second part: queue.put and return of the id.
AddJobEnqueue ==
    /\ add_pc # NoJob
    /\ download_queue' = Append(download_queue, add_pc)
    /\ add_pc' = NoJob
    /\ UNCHANGED << now, circuit_breaker, rate_limiter, running, active_downloads,
                    wpc, wjob, wattempt, werror, jobs_db, next_job, cancel_pc,
                    cancels, cancel_obs, exec_obs, cb_obs_vars, rl_obs_vars, aux_vars >>

\* Ids that add_download_job has returned to a caller.
ReturnedIds == {j \in JobIds : j <= next_job /\ j # add_pc}

\* cancel_download(j), first part: drop j from active_downloads, then
\* suspend in the store update.
CancelBegin(j) ==
    /\ cancel_pc = NoJob
    /\ cancels < MaxCancels
    /\ j \in ReturnedIds
    /\ active_downloads' = active_downloads \ {j}
    /\ cancel_pc' = j
    /\ cancels' = cancels + 1
    /\ cancel_obs' = [NoCancel EXCEPT !.job = j, !.seen = jobs_db[j].status]
    /\ UNCHANGED << now, circuit_breaker, rate_limiter, running, download_queue,
                    wpc, wjob, wattempt, werror, jobs_db, next_job, add_pc,
                    exec_obs, cb_obs_vars, rl_obs_vars, aux_vars >>

\* cancel_download(j), second part: the store update lands and the call
\* returns True.
CancelWrite ==
    /\ cancel_pc # NoJob
    /\ jobs_db' = SetStatusError(jobs_db, cancel_pc, "FAILED", "Cancelled by user")
    /\ cancel_obs' = [cancel_obs EXCEPT
                        !.status = jobs_db'[cancel_pc].status,
                        !.error_message = jobs_db'[cancel_pc].error_message,
                        !.active = cancel_pc \in active_downloads,
                        !.returned = "true"]
    /\ cancel_pc' = NoJob
    /\ UNCHANGED << now, circuit_breaker, rate_limiter, running, download_queue,
                    active_downloads, wpc, wjob, wattempt, werror, next_job,
                    add_pc, cancels, exec_obs, cb_obs_vars, rl_obs_vars, aux_vars >>

\* get_download_progress(j): "absent" iff j is not a key of active_downloads
GetDownloadProgress(j) == IF j \in active_downloads THEN "present" ELSE "absent"

(***************************************************************************)
(* Worker loop (download_manager.py 244-281).  queue.get() returns the     *)
(* head of the queue; the gates run without suspension after it.           *)
(***************************************************************************)
WorkerVarsUnchanged == UNCHANGED << wattempt, werror >>

CallerVarsUnchanged ==
    UNCHANGED << now, running, next_job, add_pc, cancel_pc, cancels,
                 cancel_obs, cb_obs_vars, rl_obs_vars, caller_aux >>

WorkerAuxUnchanged == UNCHANGED worker_aux

\* One gate call and the value it returned.
Gate(name, ret) == [gate |-> name, ret |-> ret]

\* The calls of an iteration that ends at gate 1, at gate 2, in the first
\* wait of wait_if_needed, or with a grant at the first acquire().
BreakerRefused == << Gate("can_execute", FALSE) >>

ResourcesRefused ==
    << Gate("can_execute", TRUE), Gate("check_resources", FALSE) >>

RateRefused ==
    << Gate("can_execute", TRUE), Gate("check_resources", TRUE),
       Gate("acquire", FALSE) >>

AllGranted ==
    << Gate("can_execute", TRUE), Gate("check_resources", TRUE),
       Gate("acquire", TRUE) >>

\* lines 264-265: check_resources() on the values psutil samples at this
\* moment reports can_download = ok.
ResourcesSampled(ok) ==
    \E memory_percent, disk_percent \in Percents :
        CheckResources(resource_monitor, memory_percent,
                       disk_percent).can_download = ok

CanDequeue(w) ==
    /\ running
    /\ wpc[w] = "get"
    /\ download_queue # << >>

\* Variant: requeues but goes on to process the job (the `continue` lost).
DequeueCircuitOpenNoContinue(w) ==
    /\ CanDequeue(w)
    /\ ~CanExecuteRet(circuit_breaker, now)
    /\ circuit_breaker' = CanExecuteState(circuit_breaker, now)
    /\ download_queue' = Append(Tail(download_queue), Head(download_queue))
    /\ wjob' = [wjob EXCEPT ![w] = Head(download_queue)]
    /\ active_downloads' = active_downloads \cup {Head(download_queue)}
    /\ wpc' = [wpc EXCEPT ![w] = "set_downloading"]
    /\ UNCHANGED << rate_limiter, jobs_db, exec_obs >>
    /\ WorkerVarsUnchanged /\ CallerVarsUnchanged
    /\ wgates' = [wgates EXCEPT ![w] = BreakerRefused]
    /\ UNCHANGED << stats_vars, job_trace >>

\* Gate 1 rejects (lines 257-261): requeue, sleep 10 s.  After the put the
\* worker never uses its local `job` again (continue, then a new get), so
\* wjob stays empty.
DequeueCircuitOpen(w) ==
    /\ CanDequeue(w)
    /\ ~CanExecuteRet(circuit_breaker, now)
    /\ circuit_breaker' = CanExecuteState(circuit_breaker, now)
    /\ download_queue' = Append(Tail(download_queue), Head(download_queue))
    /\ wpc' = [wpc EXCEPT ![w] = "sleep_circuit"]
    /\ UNCHANGED << rate_limiter, active_downloads, wjob, jobs_db, exec_obs >>
    /\ WorkerVarsUnchanged /\ CallerVarsUnchanged
    /\ wgates' = [wgates EXCEPT ![w] = BreakerRefused]
    /\ UNCHANGED << stats_vars, job_trace >>

\* Variant: the limiter is consulted before the resources, so a job that
\* gate 2 rejects has consumed a grant.
DequeueResourcesLowAfterGrant(w) ==
    /\ CanDequeue(w)
    /\ CanExecuteRet(circuit_breaker, now)
    /\ AcquireRet(rate_limiter, now)
    /\ ResourcesSampled(FALSE)
    /\ circuit_breaker' = CanExecuteState(circuit_breaker, now)
    /\ rate_limiter' = AcquireState(rate_limiter, now)
    /\ download_queue' = Append(Tail(download_queue), Head(download_queue))
    /\ wpc' = [wpc EXCEPT ![w] = "sleep_resources"]
    /\ UNCHANGED << active_downloads, wjob, jobs_db, exec_obs >>
    /\ WorkerVarsUnchanged /\ CallerVarsUnchanged
    /\ wgates' = [wgates EXCEPT ![w] =
                      << Gate("can_execute", TRUE), Gate("acquire", TRUE),
                         Gate("check_resources", FALSE) >>]
    /\ UNCHANGED << stats_vars, job_trace >>

\* Variant: gate 2 puts the job back where it was, ahead of the others.
DequeueResourcesLowAtHead(w) ==
    /\ CanDequeue(w)
    /\ CanExecuteRet(circuit_breaker, now)
    /\ ResourcesSampled(FALSE)
    /\ circuit_breaker' = CanExecuteState(circuit_breaker, now)
    /\ download_queue' = download_queue
    /\ wpc' = [wpc EXCEPT ![w] = "sleep_resources"]
    /\ UNCHANGED << rate_limiter, active_downloads, wjob, jobs_db, exec_obs >>
    /\ WorkerVarsUnchanged /\ CallerVarsUnchanged
    /\ wgates' = [wgates EXCEPT ![w] = ResourcesRefused]
    /\ UNCHANGED << stats_vars, job_trace >>

\* Gate 2 rejects (lines 264-269): check_resources() reports can_download
\* false; requeue, sleep 30 s.
DequeueResourcesLow(w) ==
    /\ CanDequeue(w)
    /\ CanExecuteRet(circuit_breaker, now)
    /\ ResourcesSampled(FALSE)
    /\ circuit_breaker' = CanExecuteState(circuit_breaker, now)
    /\ download_queue' = Append(Tail(download_queue), Head(download_queue))
    /\ wpc' = [wpc EXCEPT ![w] = "sleep_resources"]
    /\ UNCHANGED << rate_limiter, active_downloads, wjob, jobs_db, exec_obs >>
    /\ WorkerVarsUnchanged /\ CallerVarsUnchanged
    /\ wgates' = [wgates EXCEPT ![w] = ResourcesRefused]
    /\ UNCHANGED << stats_vars, job_trace >>

\* Gates 1 and 2 pass, acquire() is refused (lines 272, 98-99): the worker
\* keeps the job and sleeps 1 s.
DequeueRateLimited(w) ==
    /\ CanDequeue(w)
    /\ CanExecuteRet(circuit_breaker, now)
    /\ ResourcesSampled(TRUE)
    /\ ~AcquireRet(rate_limiter, now)
    /\ circuit_breaker' = CanExecuteState(circuit_breaker, now)
    /\ rate_limiter' = AcquireState(rate_limiter, now)
    /\ download_queue' = Tail(download_queue)
    /\ wjob' = [wjob EXCEPT ![w] = Head(download_queue)]
    /\ wpc' = [wpc EXCEPT ![w] = "rate_wait"]
    /\ UNCHANGED << active_downloads, jobs_db, exec_obs >>
    /\ WorkerVarsUnchanged /\ CallerVarsUnchanged
    /\ wgates' = [wgates EXCEPT ![w] = RateRefused]
    /\ UNCHANGED << stats_vars, job_trace >>

\* All gates pass: _process_download_job registers the progress entry
\* (lines 288-293) and suspends in the DOWNLOADING update.
DequeueAdmit(w) ==
    /\ CanDequeue(w)
    /\ CanExecuteRet(circuit_breaker, now)
    /\ ResourcesSampled(TRUE)
    /\ AcquireRet(rate_limiter, now)
    /\ circuit_breaker' = CanExecuteState(circuit_breaker, now)
    /\ rate_limiter' = AcquireState(rate_limiter, now)
    /\ download_queue' = Tail(download_queue)
    /\ wjob' = [wjob EXCEPT ![w] = Head(download_queue)]
    /\ active_downloads' = active_downloads \cup {Head(download_queue)}
    /\ wpc' = [wpc EXCEPT ![w] = "set_downloading"]
    /\ UNCHANGED << jobs_db, exec_obs >>
    /\ WorkerVarsUnchanged /\ CallerVarsUnchanged
    /\ wgates' = [wgates EXCEPT ![w] = AllGranted]
    /\ UNCHANGED << stats_vars, job_trace >>

\* wait_if_needed(): the next acquire() after the 1 s sleep.  A refusal
\* after the first is not recorded again.
RateWaitRetry(w) ==
    /\ wpc[w] = "rate_wait"
    /\ rate_limiter' = AcquireState(rate_limiter, now)
    /\ IF AcquireRet(rate_limiter, now)
       THEN /\ active_downloads' = active_downloads \cup {wjob[w]}
            /\ wpc' = [wpc EXCEPT ![w] = "set_downloading"]
            /\ wgates' = [wgates EXCEPT ![w] =
                              Append(@, Gate("acquire", TRUE))]
       ELSE UNCHANGED << active_downloads, wpc, wgates >>
    /\ UNCHANGED << circuit_breaker, download_queue, wjob, jobs_db, exec_obs >>
    /\ WorkerVarsUnchanged /\ CallerVarsUnchanged
    /\ UNCHANGED << stats_vars, job_trace >>

\* The sleep after a requeue ends; back to queue.get().
SleepDone(w) ==
    /\ wpc[w] \in {"sleep_circuit", "sleep_resources"}
    /\ wpc' = [wpc EXCEPT ![w] = "get"]
    /\ UNCHANGED << circuit_breaker, rate_limiter, download_queue, active_downloads,
                    wjob, jobs_db, exec_obs >>
    /\ WorkerVarsUnchanged /\ CallerVarsUnchanged
    /\ wgates' = [wgates EXCEPT ![w] = NoGates]
    /\ UNCHANGED << stats_vars, job_trace >>

(***************************************************************************)
(* _process_download_job (download_manager.py 283-416)                     *)
(***************************************************************************)
\* What one call of the executor (download_handler.start_download, run by
\* _download_with_progress) can give: a path that exists ("ok"), None or a
\* path that does not exist ("missing"), or an exception.
ExecOutcomes == {"ok", "missing", "raises"}

\* The executor returned without raising.
ExecReturns == ExecOutcomes \ {"raises"}

\* Variant: whatever the executor returns counts as a download.
DownloadOkAnyReturn(ret) == TRUE

\* line 323: file_path and os.path.exists(file_path)
DownloadOk(ret) == ret = "ok"

\* Append events to the trace of job j.
Traced(trace, j, events) == [trace EXCEPT ![j] = @ \o events]

\* str(e) of the exception the n-th executor call of a job raises
ExecutorErrorText(n) == "executor error in call " \o ToString(n)

\* line 328: the exception raised by the worker when the file is missing
FileNotFoundText == "Download completed but file not found"

\* line 331: error_message = str(e), for the n-th call ending with `outcome`
AttemptError(outcome, n) ==
    IF outcome \in ExecReturns THEN FileNotFoundText ELSE ExecutorErrorText(n)

LeaveJob(w) ==
    /\ active_downloads' = active_downloads \ {wjob[w]}
    /\ wjob' = [wjob EXCEPT ![w] = NoJob]
    /\ wattempt' = [wattempt EXCEPT ![w] = 0]
    /\ werror' = [werror EXCEPT ![w] = "None"]
    /\ wpc' = [wpc EXCEPT ![w] = "get"]

\* lines 296-321, directory created: the DOWNLOADING update lands, then
\* attempt 0 starts and the worker suspends in run_in_executor.
SetDownloading(w) ==
    /\ wpc[w] = "set_downloading"
    /\ jobs_db' = SetStatus(jobs_db, wjob[w], "DOWNLOADING")
    /\ wattempt' = [wattempt EXCEPT ![w] = 0]
    /\ werror' = [werror EXCEPT ![w] = "None"]
    /\ wpc' = [wpc EXCEPT ![w] = "executing"]
    /\ wgates' = [wgates EXCEPT ![w] = NoGates]
    /\ job_trace' = Traced(job_trace, wjob[w],
                           << "notify_downloading", "start" >>)
    /\ UNCHANGED << circuit_breaker, rate_limiter, download_queue, active_downloads,
                    wjob, exec_obs, stats_vars >>
    /\ CallerVarsUnchanged

\* lines 296-310, 400-401: the DOWNLOADING update lands, then mkdir raises;
\* the worker suspends in the FAILED update of the outer handler.
SetDownloadingMkdirFails(w) ==
    /\ wpc[w] = "set_downloading"
    /\ jobs_db' = SetStatus(jobs_db, wjob[w], "DOWNLOADING")
    /\ werror' = [werror EXCEPT ![w] = "mkdir failed"]
    /\ wpc' = [wpc EXCEPT ![w] = "set_error"]
    /\ wgates' = [wgates EXCEPT ![w] = NoGates]
    /\ job_trace' = Traced(job_trace, wjob[w], << "unexpected" >>)
    /\ UNCHANGED << circuit_breaker, rate_limiter, download_queue, active_downloads,
                    wjob, wattempt, exec_obs, stats_vars >>
    /\ CallerVarsUnchanged

\* Variant: the backoff is not capped.
BackoffWaitUncapped(attempt) == (2 ^ attempt) * 10

\* line 336: wait_time = min(300, (2 ** attempt) * 10)
BackoffWait(attempt) ==
    IF (2 ^ attempt) * 10 < 300 THEN (2 ^ attempt) * 10 ELSE 300

\* Variant: every failed attempt is recorded with the breaker.
AttemptFailedRecordsEach(w, msg, ended) ==
    /\ werror' = [werror EXCEPT ![w] = msg]
    /\ circuit_breaker' = RecordFailure(circuit_breaker, now)
    /\ job_trace' = Traced(job_trace, wjob[w], << ended, "record_failure" >>)
    /\ IF wattempt[w] < job_obj[wjob[w]].max_retries
       THEN /\ wpc' = [wpc EXCEPT ![w] = "backoff"]
            /\ sleep_obs' = [sleep_obs EXCEPT ![wjob[w]] =
                                Append(@, BackoffWait(wattempt[w]))]
       ELSE /\ wpc' = [wpc EXCEPT ![w] = "set_failed"]
            /\ UNCHANGED sleep_obs

\* lines 330-344: an attempt ended in an exception with text msg (traced
\* as `ended`).  With retries left the worker sleeps the backoff; after the
\* last attempt it records the breaker failure and suspends in the FAILED
\* update.
AttemptFailed(w, msg, ended) ==
    /\ werror' = [werror EXCEPT ![w] = msg]
    /\ IF wattempt[w] < job_obj[wjob[w]].max_retries
       THEN /\ wpc' = [wpc EXCEPT ![w] = "backoff"]
            /\ sleep_obs' = [sleep_obs EXCEPT ![wjob[w]] =
                                Append(@, BackoffWait(wattempt[w]))]
            /\ job_trace' = Traced(job_trace, wjob[w],
                                   << ended, "notify_retrying" >>)
            /\ UNCHANGED circuit_breaker
       ELSE /\ circuit_breaker' = RecordFailure(circuit_breaker, now)
            /\ wpc' = [wpc EXCEPT ![w] = "set_failed"]
            /\ job_trace' = Traced(job_trace, wjob[w],
                                   << ended, "record_failure" >>)
            /\ UNCHANGED sleep_obs

\* lines 321-326: the executor returns and the test of line 323 passes.
ExecutorSucceeds(w) ==
    /\ wpc[w] = "executing"
    /\ ~executor_down
    /\ \E ret \in ExecReturns :
          /\ DownloadOk(ret)
          /\ exec_obs' = [exec_obs EXCEPT ![wjob[w]] =
                            [calls |-> @.calls + 1, last |-> ret]]
    /\ circuit_breaker' = RecordSuccess(circuit_breaker)
    /\ wpc' = [wpc EXCEPT ![w] = "set_completed"]
    /\ job_trace' = Traced(job_trace, wjob[w],
                           << "attempt_ok", "record_success" >>)
    /\ UNCHANGED << rate_limiter, download_queue, active_downloads, wjob, wattempt,
                    werror, jobs_db, stats_vars, wgates >>
    /\ CallerVarsUnchanged

\* lines 327-344: the executor raises, or the test of line 323 fails.
ExecutorFails(w, outcome) ==
    /\ wpc[w] = "executing"
    /\ ~executor_down
    /\ outcome \in ExecOutcomes
    /\ outcome = "raises" \/ ~DownloadOk(outcome)
    /\ exec_obs' = [exec_obs EXCEPT ![wjob[w]] =
                      [calls |-> @.calls + 1, last |-> outcome]]
    /\ AttemptFailed(w, AttemptError(outcome, exec_obs[wjob[w]].calls + 1),
                     "attempt_failed")
    /\ UNCHANGED << rate_limiter, download_queue, active_downloads, wjob, wattempt,
                    jobs_db, user_stats, download_history, wgates >>
    /\ CallerVarsUnchanged

\* lines 430-434, 330-344: after executor.shutdown() run_in_executor raises
\* RuntimeError without calling the handler.
ExecutorRefused(w) ==
    /\ wpc[w] = "executing"
    /\ executor_down
    /\ AttemptFailed(w, "cannot schedule new futures after shutdown",
                     "not_scheduled")
    /\ UNCHANGED << rate_limiter, download_queue, active_downloads, wjob, wattempt,
                    jobs_db, exec_obs, user_stats, download_history, wgates >>
    /\ CallerVarsUnchanged

\* lines 342, 313-321: the backoff sleep ends and the next attempt starts.
BackoffDone(w) ==
    /\ wpc[w] = "backoff"
    /\ wattempt' = [wattempt EXCEPT ![w] = @ + 1]
    /\ wpc' = [wpc EXCEPT ![w] = "executing"]
    /\ job_trace' = Traced(job_trace, wjob[w],
                           << "notify_downloading", "start" >>)
    /\ UNCHANGED << circuit_breaker, rate_limiter, download_queue, active_downloads,
                    wjob, werror, jobs_db, exec_obs, stats_vars, wgates >>
    /\ CallerVarsUnchanged

\* lines 347-356: the COMPLETED update lands.
SetCompleted(w) ==
    /\ wpc[w] = "set_completed"
    /\ jobs_db' = SetStatus(jobs_db, wjob[w], "COMPLETED")
    /\ wpc' = [wpc EXCEPT ![w] = "add_history"]
    /\ UNCHANGED << circuit_breaker, rate_limiter, download_queue, active_downloads,
                    wjob, wattempt, werror, exec_obs >>
    /\ CallerVarsUnchanged /\ WorkerAuxUnchanged

\* lines 359-369: add_download_history inserts the row and returns.
AddHistory(w) ==
    /\ wpc[w] = "add_history"
    /\ download_history' = [download_history EXCEPT ![wjob[w]] = @ + 1]
    /\ wpc' = [wpc EXCEPT ![w] = "increment_user"]
    /\ job_trace' = Traced(job_trace, wjob[w], << "history" >>)
    /\ UNCHANGED << circuit_breaker, rate_limiter, download_queue, active_downloads,
                    wjob, wattempt, werror, jobs_db, exec_obs, user_stats,
                    sleep_obs, wgates >>
    /\ CallerVarsUnchanged

\* lines 384-390: the FAILED update lands.
SetFailedLands(w) ==
    /\ wpc[w] = "set_failed"
    /\ jobs_db' = SetFailed(jobs_db, wjob[w], werror[w],
                            job_obj[wjob[w]].max_retries)
    /\ wpc' = [wpc EXCEPT ![w] = "increment_failed"]
    /\ UNCHANGED << circuit_breaker, rate_limiter, download_queue, active_downloads,
                    wjob, wattempt, werror, exec_obs >>
    /\ CallerVarsUnchanged /\ WorkerAuxUnchanged

\* Variant: the failed flag is ignored, every call counts a download.
IncrementUserIgnoresFailed(stats, failed) ==
    [stats EXCEPT !.total_downloads = @ + 1]

\* database.py 209-218: the $inc of increment_user_downloads(failed)
IncrementUser(stats, failed) ==
    IF failed
    THEN [stats EXCEPT !.total_failed_downloads = @ + 1]
    ELSE [stats EXCEPT !.total_downloads = @ + 1]

\* lines 372-381 / 393-398, 413-416: increment_user_downloads returns, the
\* last progress is notified, the finally clause drops the progress entry
\* and the worker is back at queue.get().
IncrementUserDone(w) ==
    /\ wpc[w] \in {"increment_user", "increment_failed"}
    /\ user_stats' = IncrementUser(user_stats, wpc[w] = "increment_failed")
    /\ job_trace' = Traced(job_trace, wjob[w],
                           IF wpc[w] = "increment_failed"
                           THEN << "increment_failed", "notify_failed", "end" >>
                           ELSE << "increment_success", "notify_completed",
                                   "end" >>)
    /\ LeaveJob(w)
    /\ UNCHANGED << circuit_breaker, rate_limiter, download_queue, jobs_db,
                    exec_obs, download_history, sleep_obs, wgates >>
    /\ CallerVarsUnchanged

\* Variant: the outer handler marks the job FAILED without the exception's
\* text.
SetErrorLandsNoText(w) ==
    /\ wpc[w] = "set_error"
    /\ jobs_db' = SetStatus(jobs_db, wjob[w], "FAILED")
    /\ job_trace' = Traced(job_trace, wjob[w], << "notify_error", "end" >>)
    /\ LeaveJob(w)
    /\ UNCHANGED << circuit_breaker, rate_limiter, download_queue, exec_obs,
                    stats_vars, wgates >>
    /\ CallerVarsUnchanged

\* lines 400-416: the FAILED update of the outer handler lands, the last
\* progress (status "error") is notified, then the finally clause.
SetErrorLands(w) ==
    /\ wpc[w] = "set_error"
    /\ jobs_db' = SetStatusError(jobs_db, wjob[w], "FAILED", werror[w])
    /\ job_trace' = Traced(job_trace, wjob[w], << "notify_error", "end" >>)
    /\ LeaveJob(w)
    /\ UNCHANGED << circuit_breaker, rate_limiter, download_queue, exec_obs,
                    stats_vars, wgates >>
    /\ CallerVarsUnchanged

Next ==
    \/ Tick
    \/ Start
    \/ AddJobCreate
    \/ AddJobEnqueue
    \/ \E j \in JobIds : CancelBegin(j)
    \/ CancelWrite
    \/ \E w \in Workers : DequeueCircuitOpen(w)
    \/ \E w \in Workers : DequeueResourcesLow(w)
    \/ \E w \in Workers : DequeueRateLimited(w)
    \/ \E w \in Workers : DequeueAdmit(w)
    \/ \E w \in Workers : RateWaitRetry(w)
    \/ \E w \in Workers : SleepDone(w)
    \/ \E w \in Workers : SetDownloading(w)
    \/ \E w \in Workers : SetDownloadingMkdirFails(w)
    \/ \E w \in Workers : ExecutorSucceeds(w)
    \/ \E w \in Workers : \E o \in ExecOutcomes : ExecutorFails(w, o)
    \/ \E w \in Workers : BackoffDone(w)
    \/ \E w \in Workers : SetCompleted(w)
    \/ \E w \in Workers : AddHistory(w)
    \/ \E w \in Workers : SetFailedLands(w)
    \/ \E w \in Workers : IncrementUserDone(w)
    \/ \E w \in Workers : SetErrorLands(w)

Spec == Init /\ [][Next]_vars

(***************************************************************************)
(* Properties of the manager (under Spec)                                  *)
(***************************************************************************)
AllowedTransitions ==
    { << "PENDING", "DOWNLOADING" >>, << "DOWNLOADING", "COMPLETED" >>,
      << "DOWNLOADING", "FAILED" >>, << "PENDING", "FAILED" >> }

\* C1: a job's durable status changes only along PENDING -> DOWNLOADING,
\* DOWNLOADING -> COMPLETED, DOWNLOADING -> FAILED or, by cancellation,
\* PENDING/DOWNLOADING -> FAILED; COMPLETED and FAILED are never left.
C1_StatusTransitions ==
    [][\A j \in JobIds :
          (jobs_db[j].status # "ABSENT" /\ jobs_db'[j].status # jobs_db[j].status)
              => << jobs_db[j].status, jobs_db'[j].status >> \in AllowedTransitions
      ]_vars

\* The worker holding job j is suspended in its terminal store update.
AtTerminalWrite(w) ==
    /\ wjob[w] # NoJob
    /\ wpc[w] \in {"set_completed", "set_failed", "set_error"}

CancelledRecord(j) ==
    /\ jobs_db[j].status = "FAILED"
    /\ jobs_db[j].error_message = "Cancelled by user"

\* C2: once cancel_download has marked the record of an in-flight job FAILED
\* with the cancellation reason, the worker's terminal write leaves that
\* record as it is.
C2_CancelledRecordKept ==
    [][\A w \in Workers :
          (AtTerminalWrite(w) /\ CancelledRecord(wjob[w]) /\ wpc'[w] # wpc[w])
              => jobs_db'[wjob[w]] = jobs_db[wjob[w]]
      ]_vars

\* C3: cancel_download(id) on a job whose durable status is PENDING removes
\* id from the active-progress table, leaves a durable FAILED record with
\* the cancellation reason and returns true, and get_download_progress(id)
\* is absent ever after.
C3_CancelPending ==
    (cancel_obs.seen = "PENDING" /\ cancel_obs.returned = "true") =>
        /\ ~cancel_obs.active
        /\ cancel_obs.status = "FAILED"
        /\ cancel_obs.error_message = "Cancelled by user"
        /\ GetDownloadProgress(cancel_obs.job) = "absent"

InQueue(j) == \E i \in 1..Len(download_queue) : download_queue[i] = j

\* C4: a job id is never in the hands of two workers, nor both in the queue
\* and in a worker's hands.
C4_OneHolder ==
    \A w \in Workers :
        wjob[w] # NoJob =>
            /\ \A v \in Workers \ {w} : wjob[v] # wjob[w]
            /\ ~InQueue(wjob[w])

C4_Witness ==
    \E w, v \in Workers :
        /\ wpc[w] = "sleep_circuit"
        /\ wjob[v] # NoJob
        /\ download_queue # << >>
        /\ circuit_breaker.state = "OPEN"

\* The error message the last executor call of job j stands for.
LastAttemptError(j) ==
    IF exec_obs[j].last = "missing"
    THEN "Download completed but file not found"
    ELSE "executor error in call " \o ToString(exec_obs[j].calls)

AllAttemptsFailed(j) ==
    /\ exec_obs[j].calls = max_retries + 1
    /\ exec_obs[j].last \in {"missing", "raises"}

\* C10: when all max_retries + 1 executor calls of a job have failed, the
\* record the worker writes at terminal FAILED has retry_count = max_retries
\* and the error message of the last attempt.
C10_FailedRecord ==
    [][\A j \in JobIds :
          (AllAttemptsFailed(j) /\ jobs_db'[j] # jobs_db[j] /\ cancel_pc' = cancel_pc)
              => jobs_db'[j] = [status |-> "FAILED",
                                error_message |-> LastAttemptError(j),
                                retry_count |-> max_retries]
      ]_vars

C10_Witness ==
    \E j \in JobIds :
        /\ AllAttemptsFailed(j)
        /\ exec_obs[j].last = "raises"
        /\ jobs_db[j] = [status |-> "FAILED",
                         error_message |-> LastAttemptError(j),
                         retry_count |-> max_retries]

\* C11: a job that succeeds on attempt index k (after k failed attempts) has
\* retry_count = k on its durable COMPLETED record.
C11_RetryCountAtSuccess ==
    \A j \in JobIds :
        (jobs_db[j].status = "COMPLETED" /\ exec_obs[j].last = "ok")
            => jobs_db[j].retry_count = exec_obs[j].calls - 1

(***************************************************************************)
(* The store-level pending query (database.py 262-278)                     *)
(***************************************************************************)
\* find({"status": PENDING})
PendingIds(db) == {j \in JobIds : db[j].status = "PENDING"}

\* Variant: the priority key sorts ascending.
SortsBeforeAscending(objs, j, k) ==
    \/ objs[j].priority < objs[k].priority
    \/ /\ objs[j].priority = objs[k].priority
       /\ objs[j].created_at < objs[k].created_at

\* sort([("priority", -1), ("created_at", 1)]): document j comes before k
SortsBefore(objs, j, k) ==
    \/ objs[j].priority > objs[k].priority
    \/ /\ objs[j].priority = objs[k].priority
       /\ objs[j].created_at < objs[k].created_at

RECURSIVE SortIds(_, _)
SortIds(objs, S) ==
    IF S = {} THEN << >>
    ELSE LET first == CHOOSE j \in S : \A k \in S \ {j} : SortsBefore(objs, j, k)
         IN  << first >> \o SortIds(objs, S \ {first})

\* cursor.limit(n): the first n documents; a limit of 0 sets no limit
\* (MongoDB cursor semantics).
LimitTo(seq, n) ==
    IF n = 0 \/ n >= Len(seq) THEN seq ELSE SubSeq(seq, 1, n)

\* get_pending_jobs(limit); priority and created_at of a document are those
\* of the DownloadJob it was inserted from (no update ever sets them).
GetPendingJobs(db, objs, limit) == LimitTo(SortIds(objs, PendingIds(db)), limit)

CallGetPendingJobs(limit) ==
    /\ pending_ret' = [called |-> TRUE, limit |-> limit,
                       seen |-> [j \in JobIds |-> jobs_db[j].status],
                       jobs |-> GetPendingJobs(jobs_db, job_obj, limit)]
    /\ UNCHANGED << now, circuit_breaker, rate_limiter, running, download_queue,
                    active_downloads, wpc, wjob, wattempt, werror, jobs_db,
                    next_job, add_pc, cancel_pc, cancels, cancel_obs, exec_obs,
                    cb_obs_vars, rl_obs_vars, pool_size, job_obj, life_vars,
                    res_vars, side_vars, fs_vars, cbk_vars, worker_aux >>

\* A store holding any job documents: each id either has none or has one
\* with any status and priority (documents outlive the manager that wrote
\* them).
Statuses == {"PENDING", "DOWNLOADING", "COMPLETED", "FAILED"}

Priorities == {0, 5}

InitQuery ==
    /\ now = 0
    /\ circuit_breaker = CircuitBreakerNew(failure_threshold, recovery_timeout)
    /\ rate_limiter = RateLimiterNew(max_requests, time_window)
    /\ running = FALSE
    /\ download_queue = << >>
    /\ active_downloads = {}
    /\ wpc = [w \in Workers |-> "unborn"]
    /\ wjob = [w \in Workers |-> NoJob]
    /\ wattempt = [w \in Workers |-> 0]
    /\ werror = [w \in Workers |-> "None"]
    /\ \E st \in [JobIds -> Statuses \cup {"ABSENT"}] :
          jobs_db = [j \in JobIds |->
                       IF st[j] = "ABSENT" THEN NoRecord
                       ELSE [NewJobRecord EXCEPT !.status = st[j]]]
    /\ next_job = 0
    /\ add_pc = NoJob
    /\ cancel_pc = NoJob
    /\ cancels = 0
    /\ cancel_obs = NoCancel
    /\ exec_obs = [j \in JobIds |-> NoExec]
    /\ \E pr \in [JobIds -> Priorities] :
          job_obj = [j \in JobIds |->
                       [priority |-> pr[j], max_retries |-> max_retries,
                        created_at |-> j]]
    /\ workers_len = 0
    /\ stop_pc = "idle"
    /\ executor_down = FALSE
    /\ orphan_threads = {}
    /\ orphan_writes = {}
    /\ progress_callbacks = << >>
    /\ user_stats = [total_downloads |-> 0, total_failed_downloads |-> 0]
    /\ download_history = [j \in JobIds |-> 0]
    /\ fs_root = TRUE
    /\ fs_files = {}
    /\ sleep_obs = [j \in JobIds |-> << >>]
    /\ life_obs = [starts |-> 0, stops |-> 0, last |-> "none"]
    /\ pending_ret = NoPending
    /\ cleanup_obs = NoCleanup
    /\ notify_obs = NoNotify
    /\ res_obs = NoRes
    /\ SideInit
    /\ wgates = [w \in Workers |-> NoGates]
    /\ job_trace = [j \in JobIds |-> << >>]
    /\ pool_size = max_concurrent_downloads
    /\ resource_monitor = ResourceMonitorNew(max_memory_percent, max_disk_percent)
    /\ ObsInit

NextQuery == \E limit \in 0..MaxQueryLimit : CallGetPendingJobs(limit)

SpecQuery == InitQuery /\ [][NextQuery]_vars

\* The keys the query sorts by hold between consecutive returned jobs.
InQueryOrder(jobs) ==
    \A i \in 1..Len(jobs) : \A k \in 1..Len(jobs) :
        i < k =>
            \/ job_obj[jobs[i]].priority > job_obj[jobs[k]].priority
            \/ /\ job_obj[jobs[i]].priority = job_obj[jobs[k]].priority
               /\ job_obj[jobs[i]].created_at < job_obj[jobs[k]].created_at

OnlyPending(ret) ==
    \A i \in 1..Len(ret.jobs) : ret.seen[ret.jobs[i]] = "PENDING"

InitCallers ==
    /\ now = 0
    /\ circuit_breaker = CircuitBreakerNew(failure_threshold, recovery_timeout)
    /\ rate_limiter = RateLimiterNew(max_requests, time_window)
    /\ ManagerInit
    /\ pool_size = 1
    /\ resource_monitor = ResourceMonitorNew(max_memory_percent, max_disk_percent)
    /\ ObsInit

AddJobAny ==
    \E p \in Priorities : \E stored \in BOOLEAN :
        AddJob(MaxJobs, p, max_retries, stored)

NextCallers ==
    \/ Tick
    \/ Start
    \/ AddJobAny
    \/ AddJobEnqueue
    \/ \E j \in JobIds : CancelBegin(j)
    \/ CancelWrite
    \/ \E w \in Workers : DequeueAdmit(w)
    \/ \E w \in Workers : SetDownloading(w)
    \/ \E w \in Workers : ExecutorSucceeds(w)
    \/ \E w \in Workers : SetCompleted(w)
    \/ \E w \in Workers : AddHistory(w)
    \/ \E w \in Workers : IncrementUserDone(w)

SpecCallers == InitCallers /\ [][NextCallers]_vars

\* C12: among jobs waiting in the queue at the same time, the one the single
\* worker takes up (and so the first to become DOWNLOADING) has a priority no
\* lower than that of any job left waiting.
C12_PriorityOrder ==
    [][\A w \in Workers :
          (wjob[w] = NoJob /\ wjob'[w] # NoJob)
              => \A i \in 1..Len(download_queue) :
                    job_obj[download_queue[i]].priority
                        <= job_obj[wjob'[w]].priority
      ]_vars

\* Number of times job j occurs in the in-memory queue q.
TimesQueued(q, j) == Cardinality({i \in 1..Len(q) : q[i] = j})

\* C18: when add_download_job returns an id, the id differs from every id
\* returned before, the store holds a PENDING record for it, and the job is
\* in the in-memory queue exactly once.
C18_AddReturns ==
    [][(add_pc # NoJob /\ add_pc' = NoJob)
          => /\ add_pc \notin ReturnedIds
             /\ jobs_db'[add_pc].status = "PENDING"
             /\ TimesQueued(download_queue', add_pc) = 1
      ]_vars

(***************************************************************************)
(* Lifecycle (download_manager.py 158-186).  One start() or stop() call is *)
(* in progress at a time.  Task.cancel() raises CancelledError in the      *)
(* worker at its suspension point; it is not an Exception, so no handler   *)
(* of the worker catches it and only the finally clause of                 *)
(* _process_download_job runs.  What the worker was suspended in goes on   *)
(* without it: the executor thread runs to its end, and a store call       *)
(* already issued may still land.                                          *)
(***************************************************************************)
\* Variant: no _running check, so the workers are spawned again.
StartWhileRunningSpawns ==
    /\ stop_pc = "idle"
    /\ life_obs.starts < MaxStartCalls
    /\ running
    /\ workers_len' = workers_len + pool_size
    /\ life_obs' = [life_obs EXCEPT !.starts = @ + 1, !.last = "start"]
    /\ UNCHANGED << now, circuit_breaker, rate_limiter, running, download_queue,
                    active_downloads, wpc, wjob, wattempt, werror, jobs_db,
                    next_job, add_pc, cancel_pc, cancels, cancel_obs, exec_obs,
                    cb_obs_vars, rl_obs_vars, pool_size, job_obj,
                    stop_pc, executor_down, orphan_threads, orphan_writes,
                    pending_ret, res_vars, side_vars, fs_vars, cbk_vars, worker_aux >>

\* start() while running (lines 160-161): returns at once.
StartWhileRunning ==
    /\ stop_pc = "idle"
    /\ life_obs.starts < MaxStartCalls
    /\ running
    /\ life_obs' = [life_obs EXCEPT !.starts = @ + 1, !.last = "start"]
    /\ UNCHANGED << now, circuit_breaker, rate_limiter, running, download_queue,
                    active_downloads, wpc, wjob, wattempt, werror, jobs_db,
                    next_job, add_pc, cancel_pc, cancels, cancel_obs, exec_obs,
                    cb_obs_vars, rl_obs_vars, pool_size, job_obj, workers_len,
                    stop_pc, executor_down, orphan_threads, orphan_writes,
                    pending_ret, res_vars, side_vars, fs_vars, cbk_vars, worker_aux >>

\* Worker w is inside _process_download_job (lines 283-416).
InJob(w) ==
    wpc[w] \in {"set_downloading", "executing", "backoff", "set_completed",
                "add_history", "increment_user", "increment_failed",
                "set_failed", "set_error"}

\* Worker task w has been created and is not done.
Alive(w) == wpc[w] \notin {"unborn", "done"}

\* get_system_status()["workers_running"] (line 469)
WorkersRunning == Cardinality({w \in Workers : Alive(w)})

\* The store call worker w is suspended in, if any.
StoreCallOf(w) ==
    [job |-> wjob[w], op |-> wpc[w], error_message |-> werror[w]]

InStoreCall(w) ==
    wpc[w] \in {"set_downloading", "set_completed", "add_history",
                "increment_user", "increment_failed", "set_failed", "set_error"}

\* stop(), first part (lines 174-181): _running = False, cancel() on every
\* task of _workers, then the call suspends in gather.  The loop iterations
\* under way end here: their gate records are closed, and job_trace, which
\* follows the calls of _process_download_job that run to their end, drops
\* the trace of a cancelled call.
StopBegin ==
    /\ stop_pc = "idle"
    /\ life_obs.stops < MaxStopCalls
    /\ \A w \in Workers : wpc[w] = "executing" => ~executor_down
    /\ running' = FALSE
    /\ wpc' = [w \in Workers |->
                 IF ~Alive(w) THEN wpc[w]
                 ELSE IF wpc[w] = "set_downloading" THEN "cancelled_before_try"
                 ELSE IF InJob(w) THEN "cancelled_in_job" ELSE "cancelled"]
    /\ orphan_threads' = orphan_threads \cup
                            {wjob[w] : w \in {v \in Workers : wpc[v] = "executing"}}
    /\ orphan_writes' = orphan_writes \cup
                            {StoreCallOf(w) : w \in {v \in Workers : InStoreCall(v)}}
    /\ stop_pc' = "gather"
    /\ life_obs' = [life_obs EXCEPT !.stops = @ + 1]
    /\ wgates' = [w \in Workers |-> NoGates]
    /\ job_trace' = [j \in JobIds |->
                       IF \E w \in Workers : InJob(w) /\ wjob[w] = j
                       THEN << >> ELSE job_trace[j]]
    /\ UNCHANGED << now, circuit_breaker, rate_limiter, download_queue,
                    active_downloads, wjob, wattempt, werror, jobs_db, next_job,
                    add_pc, cancel_pc, cancels, cancel_obs, exec_obs,
                    cb_obs_vars, rl_obs_vars, pool_size, job_obj, workers_len,
                    executor_down, pending_ret, res_vars, side_vars, fs_vars, cbk_vars,
                    stats_vars >>

\* Where a cancelled worker task stands: outside _process_download_job
\* ("cancelled"), suspended in its DOWNLOADING update of line 296, which
\* stands before the try block ("cancelled_before_try"), or inside the try
\* block ("cancelled_in_job").
CancelledPcs == {"cancelled", "cancelled_before_try", "cancelled_in_job"}

\* Variant: the cancelled worker marks its job FAILED before it ends.
WorkerCancelledMarksFailed(w) ==
    /\ wpc[w] \in CancelledPcs
    /\ jobs_db' = IF wjob[w] = NoJob THEN jobs_db
                  ELSE SetStatusError(jobs_db, wjob[w], "FAILED", "Cancelled")
    /\ active_downloads' = IF wpc[w] = "cancelled_in_job"
                           THEN active_downloads \ {wjob[w]}
                           ELSE active_downloads
    /\ wjob' = [wjob EXCEPT ![w] = NoJob]
    /\ wattempt' = [wattempt EXCEPT ![w] = 0]
    /\ werror' = [werror EXCEPT ![w] = "None"]
    /\ wpc' = [wpc EXCEPT ![w] = "done"]
    /\ UNCHANGED << circuit_breaker, rate_limiter, download_queue, exec_obs >>
    /\ CallerVarsUnchanged /\ WorkerAuxUnchanged

\* The cancelled worker task runs: CancelledError leaves the worker through
\* the finally clause (lines 413-416) when it is inside the try block of
\* _process_download_job, and ends the task.  A worker cancelled in the
\* update of line 296 passes no finally clause: its progress entry stays.
WorkerCancelled(w) ==
    /\ wpc[w] \in CancelledPcs
    /\ active_downloads' = IF wpc[w] = "cancelled_in_job"
                           THEN active_downloads \ {wjob[w]}
                           ELSE active_downloads
    /\ wjob' = [wjob EXCEPT ![w] = NoJob]
    /\ wattempt' = [wattempt EXCEPT ![w] = 0]
    /\ werror' = [werror EXCEPT ![w] = "None"]
    /\ wpc' = [wpc EXCEPT ![w] = "done"]
    /\ UNCHANGED << circuit_breaker, rate_limiter, download_queue, jobs_db,
                    exec_obs >>
    /\ CallerVarsUnchanged /\ WorkerAuxUnchanged

\* The executor thread of a cancelled worker returns; nobody awaits it.
OrphanThreadEnds(j) ==
    /\ j \in orphan_threads
    /\ orphan_threads' = orphan_threads \ {j}
    /\ UNCHANGED << now, circuit_breaker, rate_limiter, running, download_queue,
                    active_downloads, wpc, wjob, wattempt, werror, jobs_db,
                    next_job, add_pc, cancel_pc, cancels, cancel_obs, exec_obs,
                    cb_obs_vars, rl_obs_vars, pool_size, job_obj, workers_len,
                    stop_pc, executor_down, orphan_writes, life_obs,
                    pending_ret, res_vars, side_vars, fs_vars, cbk_vars, worker_aux >>

\* A store call issued by a cancelled worker takes effect after all.
OrphanWriteLands(c) ==
    /\ c \in orphan_writes
    /\ orphan_writes' = orphan_writes \ {c}
    /\ jobs_db' = CASE c.op = "set_downloading" -> SetStatus(jobs_db, c.job, "DOWNLOADING")
                    [] c.op = "set_completed" -> SetStatus(jobs_db, c.job, "COMPLETED")
                    [] c.op = "set_failed" ->
                          SetFailed(jobs_db, c.job, c.error_message,
                                    job_obj[c.job].max_retries)
                    [] c.op = "set_error" ->
                          SetStatusError(jobs_db, c.job, "FAILED", c.error_message)
                    [] OTHER -> jobs_db
    /\ download_history' = IF c.op = "add_history"
                           THEN [download_history EXCEPT ![c.job] = @ + 1]
                           ELSE download_history
    /\ user_stats' = IF c.op \in {"increment_user", "increment_failed"}
                     THEN IncrementUser(user_stats, c.op = "increment_failed")
                     ELSE user_stats
    /\ UNCHANGED << now, circuit_breaker, rate_limiter, running, download_queue,
                    active_downloads, wpc, wjob, wattempt, werror,
                    next_job, add_pc, cancel_pc, cancels, cancel_obs, exec_obs,
                    cb_obs_vars, rl_obs_vars, pool_size, job_obj, workers_len,
                    stop_pc, executor_down, orphan_threads, life_obs,
                    pending_ret, res_vars, side_vars, fs_vars, cbk_vars, sleep_obs,
                    wgates, job_trace >>

\* ... or never reaches the store.
OrphanWriteLost(c) ==
    /\ c \in orphan_writes
    /\ orphan_writes' = orphan_writes \ {c}
    /\ UNCHANGED << now, circuit_breaker, rate_limiter, running, download_queue,
                    active_downloads, wpc, wjob, wattempt, werror, jobs_db,
                    next_job, add_pc, cancel_pc, cancels, cancel_obs, exec_obs,
                    cb_obs_vars, rl_obs_vars, pool_size, job_obj, workers_len,
                    stop_pc, executor_down, orphan_threads, life_obs,
                    pending_ret, res_vars, side_vars, fs_vars, cbk_vars, worker_aux >>

\* Variant: stop() does not wait for the worker tasks.
StopReturnNoGather ==
    /\ stop_pc = "gather"
    /\ orphan_threads = {}
    /\ executor_down' = TRUE
    /\ stop_pc' = "idle"
    /\ life_obs' = [life_obs EXCEPT !.last = "stop"]
    /\ UNCHANGED << now, circuit_breaker, rate_limiter, running, download_queue,
                    active_downloads, wpc, wjob, wattempt, werror, jobs_db,
                    next_job, add_pc, cancel_pc, cancels, cancel_obs, exec_obs,
                    cb_obs_vars, rl_obs_vars, pool_size, job_obj, workers_len,
                    orphan_threads, orphan_writes, pending_ret, res_vars,
                    side_vars, fs_vars,
                    cbk_vars, worker_aux >>

\* Variant: executor.shutdown(wait=False), stop() returns at once.
StopReturnNoWait ==
    /\ stop_pc = "gather"
    /\ \A w \in Workers : ~Alive(w)
    /\ executor_down' = TRUE
    /\ stop_pc' = "idle"
    /\ life_obs' = [life_obs EXCEPT !.last = "stop"]
    /\ UNCHANGED << now, circuit_breaker, rate_limiter, running, download_queue,
                    active_downloads, wpc, wjob, wattempt, werror, jobs_db,
                    next_job, add_pc, cancel_pc, cancels, cancel_obs, exec_obs,
                    cb_obs_vars, rl_obs_vars, pool_size, job_obj, workers_len,
                    orphan_threads, orphan_writes, pending_ret, res_vars,
                    side_vars, fs_vars,
                    cbk_vars, worker_aux >>

\* stop(), second part (lines 181-186): gather returns once every task of
\* _workers is done; executor.shutdown(wait=True) returns once no executor
\* thread runs; then stop() returns.
StopReturn ==
    /\ stop_pc = "gather"
    /\ \A w \in Workers : ~Alive(w)
    /\ orphan_threads = {}
    /\ executor_down' = TRUE
    /\ stop_pc' = "idle"
    /\ life_obs' = [life_obs EXCEPT !.last = "stop"]
    /\ UNCHANGED << now, circuit_breaker, rate_limiter, running, download_queue,
                    active_downloads, wpc, wjob, wattempt, werror, jobs_db,
                    next_job, add_pc, cancel_pc, cancels, cancel_obs, exec_obs,
                    cb_obs_vars, rl_obs_vars, pool_size, job_obj, workers_len,
                    orphan_threads, orphan_writes, pending_ret, res_vars,
                    side_vars, fs_vars,
                    cbk_vars, worker_aux >>

NextLife ==
    \/ Tick
    \/ Start
    \/ StartWhileRunning
    \/ StopBegin
    \/ \E w \in Workers : WorkerCancelled(w)
    \/ \E j \in JobIds : OrphanThreadEnds(j)
    \/ \E c \in orphan_writes : OrphanWriteLands(c)
    \/ \E c \in orphan_writes : OrphanWriteLost(c)
    \/ StopReturn
    \/ AddJobCreate
    \/ AddJobEnqueue
    \/ \E w \in Workers : DequeueCircuitOpen(w)
    \/ \E w \in Workers : DequeueResourcesLow(w)
    \/ \E w \in Workers : DequeueRateLimited(w)
    \/ \E w \in Workers : DequeueAdmit(w)
    \/ \E w \in Workers : RateWaitRetry(w)
    \/ \E w \in Workers : SleepDone(w)
    \/ \E w \in Workers : SetDownloading(w)
    \/ \E w \in Workers : SetDownloadingMkdirFails(w)
    \/ \E w \in Workers : ExecutorSucceeds(w)
    \/ \E w \in Workers : \E o \in ExecOutcomes : ExecutorFails(w, o)
    \/ \E w \in Workers : ExecutorRefused(w)
    \/ \E w \in Workers : BackoffDone(w)
    \/ \E w \in Workers : SetCompleted(w)
    \/ \E w \in Workers : AddHistory(w)
    \/ \E w \in Workers : SetFailedLands(w)
    \/ \E w \in Workers : IncrementUserDone(w)
    \/ \E w \in Workers : SetErrorLands(w)

SpecLife == Init /\ [][NextLife]_vars

\* C14: after start() has been called once or more with no stop() since
\* construction, _workers holds exactly max_concurrent_downloads tasks and
\* all of them are alive.
C14_StartIdempotent ==
    (life_obs.starts >= 1 /\ life_obs.stops = 0)
        => /\ workers_len = pool_size
           /\ WorkersRunning = pool_size

C14_Witness ==
    /\ life_obs.starts = 2
    /\ life_obs.stops = 0
    /\ \E w \in Workers : wpc[w] = "executing"

\* C15: once stop() has returned (and until the next start()) is_running is
\* false and workers_running is 0, whatever the workers were suspended in
\* when it was called; a further stop() changes nothing of this and returns
\* without waiting.
C15_StopFinal ==
    /\ [](life_obs.last = "stop" =>
            /\ ~running
            /\ WorkersRunning = 0
            /\ stop_pc = "gather" => ENABLED StopReturn)
    /\ [][(life_obs.last = "stop" /\ life_obs'.last = "stop")
             => /\ running' = running
                /\ wpc' = wpc
                /\ workers_len' = workers_len
                /\ executor_down' = executor_down
         ]_vars

\* A second stop() has returned; the first one interrupted a worker whose
\* job had just been set DOWNLOADING and was in its first executor call.
C15_Witness ==
    /\ life_obs.last = "stop"
    /\ life_obs.stops = 2
    /\ stop_pc = "idle"
    /\ \E j \in JobIds :
          /\ jobs_db[j].status = "DOWNLOADING"
          /\ exec_obs[j].calls = 0

\* A step of stop() itself or of a worker task it cancelled.
ShutdownStep ==
    \/ stop_pc' # stop_pc
    \/ \E w \in Workers :
          wpc[w] \in CancelledPcs /\ wpc'[w] = "done"

\* C16: the steps of a shutdown write nothing: the job records (so the
\* DOWNLOADING status of an interrupted job), the history, the user counters
\* and the circuit breaker are as they were.
C16_StopLeavesRecords ==
    [][ShutdownStep
          => /\ jobs_db' = jobs_db
             /\ download_history' = download_history
             /\ user_stats' = user_stats
             /\ circuit_breaker' = circuit_breaker
      ]_vars

\* stop() has returned and left a job DOWNLOADING that no worker holds and
\* no store call in flight will change.
C16_Witness ==
    /\ life_obs.last = "stop"
    /\ stop_pc = "idle"
    /\ orphan_writes = {}
    /\ \E j \in JobIds :
          /\ jobs_db[j].status = "DOWNLOADING"
          /\ exec_obs[j].calls = 1
          /\ exec_obs[j].last = "raises"
          /\ ~InQueue(j)
          /\ j \notin active_downloads

(***************************************************************************)
(* The retry loop of one job (download_manager.py 313-344) for any         *)
(* max_retries of the job, on a manager with one worker.                   *)
(***************************************************************************)
InitBackoff ==
    /\ now = 0
    /\ circuit_breaker = CircuitBreakerNew(failure_threshold, recovery_timeout)
    /\ rate_limiter = RateLimiterNew(max_requests, time_window)
    /\ ManagerInit
    /\ pool_size = 1
    /\ resource_monitor = ResourceMonitorNew(max_memory_percent, max_disk_percent)
    /\ ObsInit

AddJobRetries == \E m \in 0..MaxJobRetries : AddJob(1, 0, m, TRUE)

NextBackoff ==
    \/ Start
    \/ AddJobRetries
    \/ AddJobEnqueue
    \/ \E w \in Workers : DequeueAdmit(w)
    \/ \E w \in Workers : SetDownloading(w)
    \/ \E w \in Workers : ExecutorSucceeds(w)
    \/ \E w \in Workers : \E o \in ExecOutcomes : ExecutorFails(w, o)
    \/ \E w \in Workers : BackoffDone(w)
    \/ \E w \in Workers : SetCompleted(w)
    \/ \E w \in Workers : AddHistory(w)
    \/ \E w \in Workers : SetFailedLands(w)
    \/ \E w \in Workers : IncrementUserDone(w)

SpecBackoff == InitBackoff /\ [][NextBackoff]_vars

RECURSIVE SeqSum(_)
SeqSum(seq) == IF seq = << >> THEN 0 ELSE Head(seq) + SeqSum(Tail(seq))

\* Executor calls of job j that have failed so far.
FailedAttempts(j) ==
    IF exec_obs[j].last = "ok" THEN exec_obs[j].calls - 1 ELSE exec_obs[j].calls

\* C17: the worker has slept once after each failed attempt k < max_retries
\* of a job, min(300, 2^k * 10) seconds, and not after attempt max_retries;
\* when all attempts have failed the sleeps add up to the sum of these over
\* k in 0..max_retries-1, which is 30 seconds for max_retries = 2.
C17_BackoffSleeps ==
    \A j \in JobIds :
        LET m == job_obj[j].max_retries
            slept == sleep_obs[j]
        IN  /\ Len(slept) = IF FailedAttempts(j) < m THEN FailedAttempts(j) ELSE m
            /\ \A k \in 0..(Len(slept) - 1) :
                  slept[k + 1] = IF 2 ^ k * 10 > 300 THEN 300 ELSE 2 ^ k * 10
            /\ (FailedAttempts(j) = m + 1 /\ m = 2) => SeqSum(slept) = 30
            /\ (FailedAttempts(j) = m + 1 /\ m = 6) => SeqSum(slept) = 610

\* A job with max_retries = 2 has failed three times and is FAILED after
\* sleeps of 10 and 20 seconds.
C17_Witness ==
    \E j \in JobIds :
        /\ job_obj[j].max_retries = 2
        /\ FailedAttempts(j) = 3
        /\ jobs_db[j].status = "FAILED"
        /\ sleep_obs[j] = << 10, 20 >>

(***************************************************************************)
(* cleanup_old_files (download_manager.py 438-458) over any content of     *)
(* ./DOWNLOADS.  A file is known by where it lies and when it was last     *)
(* modified: directly in the root, directly in a first-level directory     *)
(* (DOWNLOADS/<user_id>/, where _process_download_job sends the download), *)
(* or deeper.                                                              *)
(***************************************************************************)
Places == {"root", "user_dir", "nested"}

FileUniverse == [place : Places, mtime : 0..MaxMtime]

\* lines 449-451: the files the two nested loops reach and find older than
\* the cutoff
Expired(files, cutoff) ==
    {f \in files : f.place = "user_dir" /\ f.mtime < cutoff}

\* One call at clock reading t; `failing` are the files whose unlink raises.
\* Gives the files left and the value returned (none: the bare return of
\* line 442).
CleanupOldFiles(exists, files, t, max_age_hours, failing) ==
    IF ~exists
    THEN [left |-> files, unlinked |-> {}, returned_none |-> TRUE, returned |-> 0]
    ELSE LET cutoff_time == t - (max_age_hours * 3600)
             gone == Expired(files, cutoff_time) \ failing
         IN  [left |-> files \ gone, unlinked |-> gone,
              returned_none |-> FALSE, returned |-> Cardinality(gone)]

CallCleanup(max_age_hours, failing) ==
    /\ failing \subseteq Expired(fs_files, now - (max_age_hours * 3600))
    /\ LET r == CleanupOldFiles(fs_root, fs_files, now, max_age_hours, failing)
       IN  /\ fs_files' = r.left
           /\ cleanup_obs' =
                 [called |-> TRUE, max_age_hours |-> max_age_hours, at |-> now,
                  before |-> fs_files, unlinked |-> r.unlinked, left |-> r.left,
                  returned_none |-> r.returned_none, returned |-> r.returned,
                  again |-> /\ cleanup_obs.called
                            /\ cleanup_obs.max_age_hours = max_age_hours
                            /\ cleanup_obs.at = now
                            /\ cleanup_obs.left = fs_files]
    /\ UNCHANGED << now, circuit_breaker, rate_limiter, running, download_queue,
                    active_downloads, wpc, wjob, wattempt, werror, jobs_db,
                    next_job, add_pc, cancel_pc, cancels, cancel_obs, exec_obs,
                    cb_obs_vars, rl_obs_vars, pool_size, job_obj, life_vars,
                    pending_ret, res_vars, side_vars, fs_root, cbk_vars, worker_aux >>

\* lines 308-310, 418-436: a download creates DOWNLOADS/<user_id>/ and
\* writes its file there.
WriteFile ==
    /\ fs_root' = TRUE
    /\ fs_files' = fs_files \cup {[place |-> "user_dir", mtime |-> now]}
    /\ UNCHANGED << now, circuit_breaker, rate_limiter, running, download_queue,
                    active_downloads, wpc, wjob, wattempt, werror, jobs_db,
                    next_job, add_pc, cancel_pc, cancels, cancel_obs, exec_obs,
                    cb_obs_vars, rl_obs_vars, pool_size, job_obj, life_vars,
                    pending_ret, res_vars,
                    side_vars, cleanup_obs, cbk_vars, worker_aux >>

InitCleanup ==
    /\ now = 0
    /\ circuit_breaker = CircuitBreakerNew(failure_threshold, recovery_timeout)
    /\ rate_limiter = RateLimiterNew(max_requests, time_window)
    /\ running = FALSE
    /\ download_queue = << >>
    /\ active_downloads = {}
    /\ wpc = [w \in Workers |-> "unborn"]
    /\ wjob = [w \in Workers |-> NoJob]
    /\ wattempt = [w \in Workers |-> 0]
    /\ werror = [w \in Workers |-> "None"]
    /\ jobs_db = [j \in JobIds |-> NoRecord]
    /\ next_job = 0
    /\ add_pc = NoJob
    /\ cancel_pc = NoJob
    /\ cancels = 0
    /\ cancel_obs = NoCancel
    /\ exec_obs = [j \in JobIds |-> NoExec]
    /\ job_obj = [j \in JobIds |-> NoJobObj]
    /\ workers_len = 0
    /\ stop_pc = "idle"
    /\ executor_down = FALSE
    /\ orphan_threads = {}
    /\ orphan_writes = {}
    /\ progress_callbacks = << >>
    /\ user_stats = [total_downloads |-> 0, total_failed_downloads |-> 0]
    /\ download_history = [j \in JobIds |-> 0]
    /\ fs_root \in BOOLEAN
    /\ fs_files \in SUBSET FileUniverse
    /\ ~fs_root => fs_files = {}
    /\ sleep_obs = [j \in JobIds |-> << >>]
    /\ life_obs = [starts |-> 0, stops |-> 0, last |-> "none"]
    /\ pending_ret = NoPending
    /\ cleanup_obs = NoCleanup
    /\ notify_obs = NoNotify
    /\ res_obs = NoRes
    /\ SideInit
    /\ wgates = [w \in Workers |-> NoGates]
    /\ job_trace = [j \in JobIds |-> << >>]
    /\ pool_size = max_concurrent_downloads
    /\ resource_monitor = ResourceMonitorNew(max_memory_percent, max_disk_percent)
    /\ ObsInit

NextCleanup ==
    \/ Tick
    \/ WriteFile
    \/ \E h \in {0, 1} : \E failing \in SUBSET fs_files : CallCleanup(h, failing)

SpecCleanup == InitCleanup /\ [][NextCleanup]_vars

\* C19: cleanup_old_files(max_age_hours=0) removes every file under the
\* download root and returns the number of files it removed; calling it
\* again immediately returns 0.
C19_CleanupAll ==
    (cleanup_obs.called /\ cleanup_obs.max_age_hours = 0)
        => /\ cleanup_obs.left = {}
           /\ ~cleanup_obs.returned_none
           /\ cleanup_obs.returned = Cardinality(cleanup_obs.unlinked)
           /\ cleanup_obs.again => cleanup_obs.returned = 0

(***************************************************************************)
(* Progress subscribers (download_manager.py 188-198).  A subscriber is    *)
(* any callable; each of its invocations either returns or raises an       *)
(* Exception.                                                              *)
(***************************************************************************)
Callbacks == 1..MaxCallbacks

\* add_progress_callback(callback)
AddProgressCallback(c) ==
    /\ Len(progress_callbacks) < MaxRegistered
    /\ progress_callbacks' = Append(progress_callbacks, c)
    /\ UNCHANGED << now, circuit_breaker, rate_limiter, running, download_queue,
                    active_downloads, wpc, wjob, wattempt, werror, jobs_db,
                    next_job, add_pc, cancel_pc, cancels, cancel_obs, exec_obs,
                    cb_obs_vars, rl_obs_vars, pool_size, job_obj, life_vars,
                    pending_ret, res_vars, side_vars, fs_vars, notify_obs, worker_aux >>

\* Variant: no try/except around the call, the exception leaves the loop.
AfterCallbackUncaught(raised) == IF raised THEN "propagate" ELSE "next"

\* lines 195-198: an Exception raised by the callback is logged and the
\* loop goes on.
AfterCallback(raised) == "next"

\* The for loop of _notify_progress from position i on; `raising` are the
\* positions whose callback raises.  Gives the callbacks invoked, in order,
\* and whether an exception left the function.
RECURSIVE NotifyFrom(_, _, _)
NotifyFrom(cbs, i, raising) ==
    IF i > Len(cbs) THEN [invoked |-> << >>, propagated |-> FALSE]
    ELSE IF AfterCallback(i \in raising) = "propagate"
         THEN [invoked |-> << cbs[i] >>, propagated |-> TRUE]
         ELSE LET rest == NotifyFrom(cbs, i + 1, raising)
              IN  [invoked |-> << cbs[i] >> \o rest.invoked,
                   propagated |-> rest.propagated]

\* _notify_progress(progress)
NotifyProgress(raising) ==
    /\ raising \subseteq 1..Len(progress_callbacks)
    /\ LET r == NotifyFrom(progress_callbacks, 1, raising)
       IN  notify_obs' =
              [called |-> TRUE, callbacks |-> progress_callbacks,
               raised |-> raising, invoked |-> r.invoked,
               propagated |-> r.propagated,
               raised_before |-> IF notify_obs.called
                                 THEN notify_obs.raised_before \cup notify_obs.raised
                                 ELSE {}]
    /\ UNCHANGED << now, circuit_breaker, rate_limiter, running, download_queue,
                    active_downloads, wpc, wjob, wattempt, werror, jobs_db,
                    next_job, add_pc, cancel_pc, cancels, cancel_obs, exec_obs,
                    cb_obs_vars, rl_obs_vars, pool_size, job_obj, life_vars,
                    pending_ret, res_vars,
                    side_vars, fs_vars, progress_callbacks, worker_aux >>

NextNotify ==
    \/ \E c \in Callbacks : AddProgressCallback(c)
    \/ \E raising \in SUBSET (1..MaxRegistered) : NotifyProgress(raising)

SpecNotify == Init /\ [][NextNotify]_vars

\* C20: a notification invokes each registered subscriber once, in
\* registration order, also after one of them has raised; no exception leaves
\* _notify_progress; a subscriber that raised is still registered and is
\* invoked by the next notification.
C20_NotifyAll ==
    notify_obs.called =>
        /\ notify_obs.invoked = notify_obs.callbacks
        /\ ~notify_obs.propagated
        /\ \A i \in notify_obs.raised_before :
              /\ i <= Len(progress_callbacks)
              /\ progress_callbacks[i] = notify_obs.callbacks[i]
              /\ notify_obs.invoked[i] = notify_obs.callbacks[i]

\* Three registrations; the first raised in an earlier notification and
\* again in this one, in which all three were invoked.
C20_Witness ==
    /\ notify_obs.called
    /\ Len(notify_obs.callbacks) = 3
    /\ 1 \in notify_obs.raised_before
    /\ 1 \in notify_obs.raised
    /\ Len(notify_obs.invoked) = 3

(***************************************************************************)
(* A stand-alone ResourceMonitor, constructed with any ceilings and asked  *)
(* at moments when psutil samples any memory and disk percentages.         *)
(***************************************************************************)
InitResources ==
    /\ now = 0
    /\ circuit_breaker = CircuitBreakerNew(failure_threshold, recovery_timeout)
    /\ rate_limiter = RateLimiterNew(max_requests, time_window)
    /\ ManagerInit
    /\ pool_size = max_concurrent_downloads
    /\ \E max_memory, max_disk \in 0..MaxCeiling :
          resource_monitor = ResourceMonitorNew(max_memory, max_disk)
    /\ ObsInit

CallCheckResources(memory_percent, disk_percent) ==
    /\ res_obs' = [called |-> TRUE,
                   memory_percent |-> memory_percent,
                   disk_percent |-> disk_percent,
                   can_download |->
                       CheckResources(resource_monitor, memory_percent,
                                      disk_percent).can_download]
    /\ UNCHANGED << now, circuit_breaker, rate_limiter, running, download_queue,
                    active_downloads, wpc, wjob, wattempt, werror, jobs_db,
                    next_job, add_pc, cancel_pc, cancels, cancel_obs, exec_obs,
                    cb_obs_vars, rl_obs_vars, pool_size, job_obj, life_vars,
                    pending_ret, fs_vars, cbk_vars, resource_monitor,
                    side_vars, worker_aux >>

NextResources ==
    \E memory_percent, disk_percent \in Percents :
        CallCheckResources(memory_percent, disk_percent)

SpecResources == InitResources /\ [][NextResources]_vars

\* C21: check_resources() reports can_download = true exactly when the
\* sampled memory_percent is strictly below max_memory_percent and the
\* sampled disk_percent is strictly below max_disk_percent; a value equal
\* to its ceiling yields can_download = false.
C21_CanDownload ==
    res_obs.called =>
        /\ res_obs.can_download <=>
              /\ res_obs.memory_percent < resource_monitor.max_memory_percent
              /\ res_obs.disk_percent < resource_monitor.max_disk_percent
        /\ res_obs.memory_percent = resource_monitor.max_memory_percent
              => ~res_obs.can_download
        /\ res_obs.disk_percent = resource_monitor.max_disk_percent
              => ~res_obs.can_download

\* Memory exactly at its ceiling, disk below its own: refused.
C21_Witness ==
    /\ res_obs.called
    /\ res_obs.memory_percent = resource_monitor.max_memory_percent
    /\ res_obs.disk_percent < resource_monitor.max_disk_percent
    /\ ~res_obs.can_download

(***************************************************************************)
(* Gating.  SpecGates is the manager without cancel_download calls, with   *)
(* a breaker that opens at the first exhausted job and a limiter that      *)
(* grants GateRequests slots per window, so that jobs are in flight while  *)
(* the breaker is open.                                                    *)
(***************************************************************************)
InitGates ==
    /\ now = 0
    /\ circuit_breaker = CircuitBreakerNew(GateThreshold, recovery_timeout)
    /\ rate_limiter = RateLimiterNew(GateRequests, time_window)
    /\ ManagerInit
    /\ pool_size = max_concurrent_downloads
    /\ resource_monitor = ResourceMonitorNew(max_memory_percent, max_disk_percent)
    /\ ObsInit

NextGates ==
    \/ Tick
    \/ Start
    \/ AddJobCreate
    \/ AddJobEnqueue
    \/ \E w \in Workers : DequeueCircuitOpen(w)
    \/ \E w \in Workers : DequeueResourcesLow(w)
    \/ \E w \in Workers : DequeueRateLimited(w)
    \/ \E w \in Workers : DequeueAdmit(w)
    \/ \E w \in Workers : RateWaitRetry(w)
    \/ \E w \in Workers : SleepDone(w)
    \/ \E w \in Workers : SetDownloading(w)
    \/ \E w \in Workers : SetDownloadingMkdirFails(w)
    \/ \E w \in Workers : ExecutorSucceeds(w)
    \/ \E w \in Workers : \E o \in ExecOutcomes : ExecutorFails(w, o)
    \/ \E w \in Workers : BackoffDone(w)
    \/ \E w \in Workers : SetCompleted(w)
    \/ \E w \in Workers : AddHistory(w)
    \/ \E w \in Workers : SetFailedLands(w)
    \/ \E w \in Workers : IncrementUserDone(w)
    \/ \E w \in Workers : SetErrorLands(w)

SpecGates == InitGates /\ [][NextGates]_vars

\* The breaker is OPEN and its recovery timeout has not elapsed: what
\* can_execute() answers with False.
OpenAndCooling ==
    /\ circuit_breaker.state = "OPEN"
    /\ ~(now - circuit_breaker.last_failure_time > circuit_breaker.recovery_timeout)

\* Worker w starts an executor invocation in this step (lines 321, 431).
StartsInvocation(w) == wpc[w] # "executing" /\ wpc'[w] = "executing"

\* C22: while the circuit breaker is OPEN and its recovery timeout has not
\* elapsed, no worker starts an executor invocation, neither the first
\* attempt of a newly admitted job nor a retry of a job admitted earlier.
C22_NoInvocationWhileOpen ==
    [][\A w \in Workers : StartsInvocation(w) => ~OpenAndCooling]_vars

(***************************************************************************)
(* Failures around a dequeued job.  SpecFaults is the manager without      *)
(* cancel_download calls, with at most one subscriber, in which            *)
(* check_resources() may raise (psutil), a store call may raise before its *)
(* own try block (_ensure_connection, database.py 110-113, 250), and the   *)
(* subscriber may raise.                                                   *)
(***************************************************************************)
\* Variant: no except clause around the loop body; the exception ends the
\* worker task.
DequeueGateRaisesUncaught(w) ==
    /\ CanDequeue(w)
    /\ CanExecuteRet(circuit_breaker, now)
    /\ circuit_breaker' = CanExecuteState(circuit_breaker, now)
    /\ download_queue' = Tail(download_queue)
    /\ wpc' = [wpc EXCEPT ![w] = "done"]
    /\ wgates' = [wgates EXCEPT ![w] = << Gate("can_execute", TRUE) >>]
    /\ UNCHANGED << rate_limiter, active_downloads, wjob, jobs_db, exec_obs,
                    stats_vars, job_trace >>
    /\ WorkerVarsUnchanged /\ CallerVarsUnchanged

\* lines 252-264, 277-279: the job is taken from the queue, gate 1 passes
\* and check_resources() raises; the except clause of the loop logs the
\* error and the worker sleeps 5 s.  Nothing puts the job back.
DequeueGateRaises(w) ==
    /\ CanDequeue(w)
    /\ CanExecuteRet(circuit_breaker, now)
    /\ circuit_breaker' = CanExecuteState(circuit_breaker, now)
    /\ download_queue' = Tail(download_queue)
    /\ wpc' = [wpc EXCEPT ![w] = "sleep_error"]
    /\ wgates' = [wgates EXCEPT ![w] = << Gate("can_execute", TRUE) >>]
    /\ UNCHANGED << rate_limiter, active_downloads, wjob, jobs_db, exec_obs,
                    stats_vars, job_trace >>
    /\ WorkerVarsUnchanged /\ CallerVarsUnchanged

\* line 279: the 5 s sleep ends; back to the loop test and queue.get().
SleepErrorDone(w) ==
    /\ wpc[w] = "sleep_error"
    /\ wpc' = [wpc EXCEPT ![w] = "get"]
    /\ wgates' = [wgates EXCEPT ![w] = NoGates]
    /\ UNCHANGED << circuit_breaker, rate_limiter, download_queue, active_downloads,
                    wjob, jobs_db, exec_obs, stats_vars, job_trace >>
    /\ WorkerVarsUnchanged /\ CallerVarsUnchanged

\* lines 296-300, 277-279: the DOWNLOADING update raises.  The call stands
\* before the try block of _process_download_job, so neither its except
\* clause nor its finally clause runs: the exception reaches the except
\* clause of the loop and the worker sleeps 5 s.
SetDownloadingRaises(w) ==
    /\ wpc[w] = "set_downloading"
    /\ wjob' = [wjob EXCEPT ![w] = NoJob]
    /\ wpc' = [wpc EXCEPT ![w] = "sleep_error"]
    /\ wgates' = [wgates EXCEPT ![w] = NoGates]
    /\ UNCHANGED << circuit_breaker, rate_limiter, download_queue, active_downloads,
                    jobs_db, exec_obs, stats_vars, job_trace >>
    /\ WorkerVarsUnchanged /\ CallerVarsUnchanged

\* lines 351-393, 400-408: a store call inside the try block raises; the
\* outer handler takes over and the worker suspends in its FAILED update.
StoreCallRaises(w) ==
    /\ wpc[w] \in {"set_completed", "add_history", "increment_user",
                   "set_failed", "increment_failed"}
    /\ werror' = [werror EXCEPT ![w] = "store error"]
    /\ wpc' = [wpc EXCEPT ![w] = "set_error"]
    /\ job_trace' = Traced(job_trace, wjob[w], << "unexpected" >>)
    /\ UNCHANGED << circuit_breaker, rate_limiter, download_queue, active_downloads,
                    wjob, wattempt, jobs_db, exec_obs, stats_vars, wgates >>
    /\ CallerVarsUnchanged

\* lines 403-416, 277-279: the FAILED update of the outer handler raises
\* too; the finally clause runs, the exception leaves
\* _process_download_job and the worker sleeps 5 s.
SetErrorRaises(w) ==
    /\ wpc[w] = "set_error"
    /\ job_trace' = Traced(job_trace, wjob[w], << "end" >>)
    /\ active_downloads' = active_downloads \ {wjob[w]}
    /\ wjob' = [wjob EXCEPT ![w] = NoJob]
    /\ wattempt' = [wattempt EXCEPT ![w] = 0]
    /\ werror' = [werror EXCEPT ![w] = "None"]
    /\ wpc' = [wpc EXCEPT ![w] = "sleep_error"]
    /\ UNCHANGED << circuit_breaker, rate_limiter, download_queue, jobs_db,
                    exec_obs, stats_vars, wgates >>
    /\ CallerVarsUnchanged

\* lines 317-318, 192-198: the notification of an attempt, made just
\* before the worker suspended in the executor call, with every subscriber
\* raising.  What _notify_progress lets through would reach the handler of
\* the attempt (line 330).
AttemptNotified(w) ==
    /\ wpc[w] = "executing"
    /\ ~executor_down
    /\ ~notify_obs.called
    /\ progress_callbacks # << >>
    /\ LET raising == 1..Len(progress_callbacks)
           r == NotifyFrom(progress_callbacks, 1, raising)
       IN  /\ notify_obs' = [called |-> TRUE, callbacks |-> progress_callbacks,
                             raised |-> raising, invoked |-> r.invoked,
                             propagated |-> r.propagated, raised_before |-> {}]
           /\ IF r.propagated
              THEN /\ AttemptFailed(w, "subscriber error", "attempt_failed")
                   /\ UNCHANGED << user_stats, download_history, wgates >>
              ELSE UNCHANGED << circuit_breaker, wpc, werror, worker_aux >>
    /\ UNCHANGED << now, rate_limiter, running, download_queue, active_downloads,
                    wjob, wattempt, jobs_db, next_job, add_pc, cancel_pc, cancels,
                    cancel_obs, exec_obs, cb_obs_vars, rl_obs_vars, pool_size,
                    job_obj, life_vars, pending_ret, res_vars, side_vars, fs_vars,
                    progress_callbacks >>

\* The plugin registers its one subscriber (production_pro.py 161).
RegisterSubscriber ==
    /\ progress_callbacks = << >>
    /\ AddProgressCallback(1)

\* add_download_job as the plugin calls it, MaxFaultJobs times.
AddJobFaults == AddJob(MaxFaultJobs, 0, max_retries, TRUE)

NextFaults ==
    \/ Tick
    \/ Start
    \/ RegisterSubscriber
    \/ AddJobFaults
    \/ AddJobEnqueue
    \/ \E w \in Workers : DequeueCircuitOpen(w)
    \/ \E w \in Workers : DequeueResourcesLow(w)
    \/ \E w \in Workers : DequeueRateLimited(w)
    \/ \E w \in Workers : DequeueAdmit(w)
    \/ \E w \in Workers : DequeueGateRaises(w)
    \/ \E w \in Workers : RateWaitRetry(w)
    \/ \E w \in Workers : SleepDone(w)
    \/ \E w \in Workers : SleepErrorDone(w)
    \/ \E w \in Workers : SetDownloading(w)
    \/ \E w \in Workers : SetDownloadingMkdirFails(w)
    \/ \E w \in Workers : SetDownloadingRaises(w)
    \/ \E w \in Workers : AttemptNotified(w)
    \/ \E w \in Workers : ExecutorSucceeds(w)
    \/ \E w \in Workers : \E o \in ExecOutcomes : ExecutorFails(w, o)
    \/ \E w \in Workers : BackoffDone(w)
    \/ \E w \in Workers : SetCompleted(w)
    \/ \E w \in Workers : AddHistory(w)
    \/ \E w \in Workers : SetFailedLands(w)
    \/ \E w \in Workers : IncrementUserDone(w)
    \/ \E w \in Workers : StoreCallRaises(w)
    \/ \E w \in Workers : SetErrorLands(w)
    \/ \E w \in Workers : SetErrorRaises(w)

\* The breaker opens at the first exhausted job, the limiter grants one slot
\* per window: two jobs suffice to meet every gate.
InitFaults ==
    /\ now = 0
    /\ circuit_breaker = CircuitBreakerNew(GateThreshold, recovery_timeout)
    /\ rate_limiter = RateLimiterNew(max_requests, time_window)
    /\ ManagerInit
    /\ pool_size = max_concurrent_downloads
    /\ resource_monitor = ResourceMonitorNew(max_memory_percent, max_disk_percent)
    /\ ObsInit

SpecFaults == InitFaults /\ [][NextFaults]_vars

(***************************************************************************)
(* C23: while the pool is running, a job returned by add_download_job is   *)
(* in the queue, in the hands of a worker, or has a terminal durable       *)
(* status: a failure met while a worker holds the job, an exception of a   *)
(* gating check included, sends it back to the queue or to a terminal      *)
(* status.                                                                 *)
(***************************************************************************)
HeldByWorker(j) == \E w \in Workers : wjob[w] = j

TerminalStatus(j) ==
    /\ jobs_db[j] # NoRecord
    /\ jobs_db[j].status \in {"COMPLETED", "FAILED"}

C23_NoJobLost ==
    running =>
        \A j \in ReturnedIds :
            InQueue(j) \/ HeldByWorker(j) \/ TerminalStatus(j)

(***************************************************************************)
(* Progress.  The clock of these specifications never stops: once `now`    *)
(* has reached MaxTime, a further unit of time moves the origin instead,   *)
(* and the time stamps the breaker and the limiter still compare against   *)
(* the clock (those whose timeout or window has not elapsed) go down by    *)
(* one.  Differences t - stamp, the only use the code makes of them, grow  *)
(* as they do under time.time().                                           *)
(***************************************************************************)
ElapseBreaker(cb, t) ==
    IF cb.last_failure_time # NoTime
       /\ t - cb.last_failure_time <= cb.recovery_timeout
    THEN [cb EXCEPT !.last_failure_time = @ - 1]
    ELSE cb

ElapseRequest(rl, t, req_time) ==
    IF t - req_time < rl.time_window THEN req_time - 1 ELSE req_time

ElapseLimiter(rl, t) ==
    [rl EXCEPT !.requests =
        [i \in 1..Len(rl.requests) |-> ElapseRequest(rl, t, rl.requests[i])]]

Elapse ==
    /\ IF now < MaxTime
       THEN /\ now' = now + 1
            /\ UNCHANGED << circuit_breaker, rate_limiter >>
       ELSE /\ now' = now
            /\ circuit_breaker' = ElapseBreaker(circuit_breaker, now)
            /\ rate_limiter' = ElapseLimiter(rate_limiter, now)
    /\ UNCHANGED << mgr_vars, cb_obs_vars, rl_obs_vars >>

\* One step of worker task w when no call it makes raises or is refused.
WorkerStep(w) ==
    \/ DequeueCircuitOpen(w)
    \/ DequeueResourcesLow(w)
    \/ DequeueRateLimited(w)
    \/ DequeueAdmit(w)
    \/ RateWaitRetry(w)
    \/ SleepDone(w)
    \/ SleepErrorDone(w)
    \/ SetDownloading(w)
    \/ SetDownloadingMkdirFails(w)
    \/ ExecutorSucceeds(w)
    \/ \E o \in ExecOutcomes : ExecutorFails(w, o)
    \/ BackoffDone(w)
    \/ SetCompleted(w)
    \/ AddHistory(w)
    \/ SetFailedLands(w)
    \/ IncrementUserDone(w)
    \/ SetErrorLands(w)

NextLive ==
    \/ Elapse
    \/ Start
    \/ AddJobFaults
    \/ AddJobEnqueue
    \/ \E w \in Workers : DequeueCircuitOpen(w)
    \/ \E w \in Workers : DequeueResourcesLow(w)
    \/ \E w \in Workers : DequeueRateLimited(w)
    \/ \E w \in Workers : DequeueAdmit(w)
    \/ \E w \in Workers : RateWaitRetry(w)
    \/ \E w \in Workers : SleepDone(w)
    \/ \E w \in Workers : SetDownloading(w)
    \/ \E w \in Workers : SetDownloadingMkdirFails(w)
    \/ \E w \in Workers : ExecutorSucceeds(w)
    \/ \E w \in Workers : \E o \in ExecOutcomes : ExecutorFails(w, o)
    \/ \E w \in Workers : BackoffDone(w)
    \/ \E w \in Workers : SetCompleted(w)
    \/ \E w \in Workers : AddHistory(w)
    \/ \E w \in Workers : SetFailedLands(w)
    \/ \E w \in Workers : IncrementUserDone(w)
    \/ \E w \in Workers : SetErrorLands(w)

\* The same with check_resources() free to raise.
NextLiveFaults ==
    \/ NextLive
    \/ \E w \in Workers : DequeueGateRaises(w)
    \/ \E w \in Workers : SleepErrorDone(w)

\* Fair scheduling: time passes, start() and a suspended add_download_job
\* go on, every worker task that can take a step takes one (the event loop
\* resumes every ready task; every executor call and every store call
\* returns), and a worker that finds a job admissible again and again is
\* not refused by gate 2 for ever (resources eventually admissible).
Fairness ==
    /\ WF_vars(Elapse)
    /\ WF_vars(Start)
    /\ WF_vars(AddJobEnqueue)
    /\ \A w \in Workers : WF_vars(WorkerStep(w))
    /\ \A w \in Workers : SF_vars(DequeueAdmit(w))

SpecLive == InitFaults /\ [][NextLive]_vars /\ Fairness

SpecLiveFaults == InitFaults /\ [][NextLiveFaults]_vars /\ Fairness

(***************************************************************************)
(* C24: under fair scheduling, with the pool started and never stopped,    *)
(* every job returned by add_download_job eventually has durable status    *)
(* COMPLETED or FAILED.                                                    *)
(***************************************************************************)
C24_EveryJobEnds ==
    \A j \in JobIds : (j \in ReturnedIds) ~> TerminalStatus(j)

(***************************************************************************)
(* C25: when gate 1 or gate 2 rejects a dequeued job, the job goes to the  *)
(* tail of the queue, its durable record (status PENDING) stays as it      *)
(* was, active_downloads gets no entry, no executor call is made and the   *)
(* breaker's failure_count stays as it was; the worker keeps no job.       *)
(***************************************************************************)
GateRejects(w) ==
    /\ wpc[w] = "get"
    /\ wpc'[w] \in {"sleep_circuit", "sleep_resources"}

RejectionFrame(w) ==
    LET job == Head(download_queue)
    IN  /\ download_queue # << >>
        /\ download_queue' = Append(Tail(download_queue), job)
        /\ jobs_db' = jobs_db
        /\ jobs_db[job].status = "PENDING"
        /\ active_downloads' = active_downloads
        /\ job \notin active_downloads'
        /\ exec_obs' = exec_obs
        /\ circuit_breaker'.failure_count = circuit_breaker.failure_count
        /\ wjob'[w] = NoJob

C25_RejectionFrame ==
    [][\A w \in Workers : GateRejects(w) => RejectionFrame(w)]_vars

\* Both gates have just rejected, each with other jobs queued behind.
C25_Witness ==
    \E w1, w2 \in Workers :
        /\ wpc[w1] = "sleep_circuit" /\ wgates[w1] = BreakerRefused
        /\ wpc[w2] = "sleep_resources" /\ wgates[w2] = ResourcesRefused
        /\ Len(download_queue) >= 2
        /\ \A i \in 1..Len(download_queue) :
               jobs_db[download_queue[i]].status = "PENDING"

(***************************************************************************)
(* C26: a worker that starts processing a job has, in this loop iteration  *)
(* and in this order, got True from can_execute(), can_download from       *)
(* check_resources() and, after any number of refused acquire() calls,     *)
(* one grant from the limiter.  The step that starts processing adds       *)
(* exactly one time stamp to the limiter, a step in which gate 1 or gate 2 *)
(* rejects leaves the limiter as it was, and no other step adds a stamp.   *)
(***************************************************************************)
GatesPassedInOrder(g) ==
    /\ Len(g) >= 3
    /\ g[1] = Gate("can_execute", TRUE)
    /\ g[2] = Gate("check_resources", TRUE)
    /\ \A i \in 3..Len(g) :
           /\ g[i].gate = "acquire"
           /\ g[i].ret <=> (i = Len(g))

StartsProcessing(w) ==
    /\ wpc[w] \in {"get", "rate_wait"}
    /\ wpc'[w] = "set_downloading"

OneGrant ==
    rate_limiter'.requests = Append(PruneRequests(rate_limiter, now), now)

NoGrant ==
    \/ rate_limiter'.requests = rate_limiter.requests
    \/ rate_limiter'.requests = PruneRequests(rate_limiter, now)

GrantPerStart ==
    /\ \A w \in Workers : StartsProcessing(w) => OneGrant
    /\ \A w \in Workers : GateRejects(w) => rate_limiter' = rate_limiter
    /\ (\A w \in Workers : ~StartsProcessing(w)) => NoGrant

C26_GatesThenOneGrant ==
    /\ [](\A w \in Workers :
              wpc[w] = "set_downloading" => GatesPassedInOrder(wgates[w]))
    /\ [][GrantPerStart]_vars

\* One worker starts processing after a refused and a granted acquire(),
\* while the other has just been rejected by gate 2.
C26_Witness ==
    \E w1, w2 \in Workers :
        /\ wpc[w1] = "set_downloading"
        /\ wgates[w1] = Append(RateRefused, Gate("acquire", TRUE))
        /\ wpc[w2] = "sleep_resources"
        /\ wgates[w2] = ResourcesRefused

(***************************************************************************)
(* What job_trace says of a job.  The trace holds, in order, the calls     *)
(* _process_download_job made for the job: "start" (an executor call is    *)
(* scheduled), "attempt_ok" / "attempt_failed" / "not_scheduled" (how the  *)
(* attempt ended), "record_success" / "record_failure" (breaker),          *)
(* "unexpected" (the outer handler took over), "history",                  *)
(* "increment_success" / "increment_failed" (users collection), "end"      *)
(* (the finally clause ran), and the calls of _notify_progress with the    *)
(* status they carry: "notify_downloading", "notify_retrying",             *)
(* "notify_completed", "notify_failed", "notify_error".                    *)
(***************************************************************************)
Count(j, event) ==
    Cardinality({i \in 1..Len(job_trace[j]) : job_trace[j][i] = event})

Has(j, event) == Count(j, event) > 0

\* _process_download_job(j) has run to its end.
ProcessedToEnd(j) == Has(j, "end")

\* The attempt loop of j was entered (mkdir did not raise).
LoopEntered(j) == Has(j, "start")

AttemptsFailed(j) == Count(j, "attempt_failed") + Count(j, "not_scheduled")

BreakerRecords(j) == Count(j, "record_success") + Count(j, "record_failure")

(***************************************************************************)
(* C27, as stated: every job processed to the end has exactly one breaker  *)
(* record, record_success() iff an attempt succeeded, record_failure()     *)
(* iff all max_retries + 1 attempts failed.                                *)
(***************************************************************************)
C27_OneRecordPerJob ==
    \A j \in JobIds :
        ProcessedToEnd(j) =>
            /\ BreakerRecords(j) = 1
            /\ Count(j, "record_success") = 1 <=> Has(j, "attempt_ok")
            /\ Count(j, "record_failure") = 1
                   <=> AttemptsFailed(j) = job_obj[j].max_retries + 1

(***************************************************************************)
(* C27, amended: a job whose attempt loop was entered and which was        *)
(* processed to the end has exactly one breaker record; a job whose        *)
(* processing ended in the outer handler before the loop has none.  At any *)
(* moment record_success() has been called once iff an attempt succeeded   *)
(* and record_failure() once iff max_retries + 1 attempts failed, so a     *)
(* failed attempt with retries left records nothing.                       *)
(***************************************************************************)
C27_OneRecordPerLoop ==
    \A j \in JobIds :
        /\ Count(j, "record_success") = Count(j, "attempt_ok")
        /\ Count(j, "attempt_ok") <= 1
        /\ Count(j, "record_failure") =
               (IF AttemptsFailed(j) = job_obj[j].max_retries + 1 THEN 1 ELSE 0)
        /\ BreakerRecords(j) <= 1
        /\ ProcessedToEnd(j) =>
               BreakerRecords(j) = (IF LoopEntered(j) THEN 1 ELSE 0)

\* Three jobs processed to the end: one succeeded after a failed attempt,
\* one failed every attempt, one ended in the outer handler before the loop.
C27_Witness ==
    \E j1, j2, j3 \in JobIds :
        /\ ProcessedToEnd(j1) /\ ProcessedToEnd(j2) /\ ProcessedToEnd(j3)
        /\ Has(j1, "attempt_failed") /\ Has(j1, "record_success")
        /\ Has(j2, "record_failure")
        /\ ~LoopEntered(j3) /\ Has(j3, "unexpected")

(***************************************************************************)
(* C28: for one job the executor is invoked at most max_retries + 1 times, *)
(* exactly max_retries + 1 times when every attempt has failed, never      *)
(* after an attempt that succeeded, and an invocation starts only after    *)
(* the one before it has returned; an attempt succeeds iff the executor    *)
(* returned a path that exists.                                            *)
(***************************************************************************)
AttemptEnds == {"attempt_ok", "attempt_failed", "not_scheduled"}

Invocations(j) == Count(j, "start")

\* Every "start" but the first follows the end of the attempt before it,
\* and nothing starts after "attempt_ok".
AttemptsSequential(j) ==
    LET trace == job_trace[j]
    IN  \A i \in 1..Len(trace) :
            trace[i] = "start" =>
                /\ \A k \in 1..(i - 1) : trace[k] # "attempt_ok"
                /\ \A k \in 1..(i - 1) :
                       trace[k] = "start" =>
                           \E m \in (k + 1)..(i - 1) : trace[m] \in AttemptEnds

C28_AttemptLoop ==
    \A j \in JobIds :
        /\ Invocations(j) <= job_obj[j].max_retries + 1
        /\ exec_obs[j].calls <= Invocations(j)
        /\ Has(j, "record_failure") =>
               /\ Invocations(j) = job_obj[j].max_retries + 1
               /\ AttemptsFailed(j) = job_obj[j].max_retries + 1
        /\ (ProcessedToEnd(j) /\ LoopEntered(j) /\ ~Has(j, "attempt_ok")) =>
               Invocations(j) = job_obj[j].max_retries + 1
        /\ AttemptsSequential(j)
        /\ Has(j, "attempt_ok") <=> exec_obs[j].last = "ok"

\* One job succeeded at its second invocation after the first returned no
\* file; another used up all its invocations.
C28_Witness ==
    \E j1, j2 \in JobIds :
        /\ ProcessedToEnd(j1) /\ ProcessedToEnd(j2)
        /\ Invocations(j1) = 2
        /\ Has(j1, "attempt_failed") /\ Has(j1, "attempt_ok")
        /\ Invocations(j2) = job_obj[j2].max_retries + 1
        /\ exec_obs[j2].last = "missing"
        /\ Has(j2, "record_failure")

(***************************************************************************)
(* Outcomes of a job processed to the end, read from the store: the status *)
(* of the job's record, its rows in download_history and the calls of      *)
(* increment_user_downloads made for it.                                   *)
(***************************************************************************)
RECURSIVE TotalCount(_, _)
TotalCount(S, event) ==
    IF S = {} THEN 0
    ELSE LET j == CHOOSE x \in S : TRUE
         IN  Count(j, event) + TotalCount(S \ {j}, event)

\* (a) COMPLETED, one history row, the success counter incremented once.
OutcomeCompleted(j) ==
    /\ jobs_db[j].status = "COMPLETED"
    /\ download_history[j] = 1
    /\ Count(j, "increment_success") = 1
    /\ Count(j, "increment_failed") = 0

\* (b) FAILED, no history row, the failure counter incremented once.
OutcomeFailed(j) ==
    /\ jobs_db[j].status = "FAILED"
    /\ download_history[j] = 0
    /\ Count(j, "increment_failed") = 1
    /\ Count(j, "increment_success") = 0

\* (c) FAILED by the outer handler: no history row, no counter incremented.
OutcomeError(j) ==
    /\ jobs_db[j].status = "FAILED"
    /\ Has(j, "unexpected")
    /\ download_history[j] = 0
    /\ Count(j, "increment_failed") = 0
    /\ Count(j, "increment_success") = 0

\* The counters of the user document are the calls made for the jobs.
CountersAreCalls ==
    /\ user_stats.total_downloads = TotalCount(JobIds, "increment_success")
    /\ user_stats.total_failed_downloads = TotalCount(JobIds, "increment_failed")
    /\ \A j \in JobIds : download_history[j] = Count(j, "history")

C30_WorkersStayAlive ==
    running =>
        /\ \A w \in 1..pool_size : Alive(w)
        /\ WorkersRunning = pool_size

\* Both workers are alive after failures of every kind: one sleeps after an
\* exception that reached the loop's handler, the other has ended a job in
\* the outer handler of _process_download_job after a store call raised; a
\* job has used up its attempts and a raising subscriber has been notified.
C30_Witness ==
    /\ running
    /\ \E w1, w2 \in Workers :
           /\ w1 # w2
           /\ wpc[w1] = "sleep_error"
           /\ wpc[w2] = "get"
    /\ \E j \in JobIds : Has(j, "record_failure")
    /\ \E j \in JobIds : Has(j, "unexpected") /\ ProcessedToEnd(j)
    /\ notify_obs.called /\ notify_obs.raised # {}

(***************************************************************************)
(* C31: whenever _process_download_job ends for a job, by success,         *)
(* exhausted retries, unexpected exception or cancellation of the worker   *)
(* by stop(), the job id is no longer a key of active_downloads, so        *)
(* get_download_progress(id) returns None afterwards.                      *)
(***************************************************************************)
\* Worker w is inside a call of _process_download_job.
InProcessCall(w) ==
    /\ wjob[w] # NoJob
    /\ \/ InJob(w)
       \/ wpc[w] \in {"cancelled_before_try", "cancelled_in_job"}

\* The call of _process_download_job made by w ends in this step.
ProcessCallEnds(w) == InProcessCall(w) /\ ~InProcessCall(w)'

C31_EntryDroppedAtEnd ==
    [][\A w \in Workers :
          ProcessCallEnds(w) => wjob[w] \notin active_downloads']_vars

(***************************************************************************)
(* C32: an unexpected exception outside the attempt loop (creating the     *)
(* user's directory raises) leaves the job FAILED with the exception's     *)
(* text as error message, the last progress notified for the job has       *)
(* status "error", and the worker is back at queue.get().                  *)
(***************************************************************************)
Notifications ==
    {"notify_downloading", "notify_retrying", "notify_completed",
     "notify_failed", "notify_error"}

\* The status carried by the last _notify_progress call made for job j.
LastNotification(j) ==
    LET notified == SelectSeq(job_trace[j], LAMBDA e : e \in Notifications)
    IN  IF notified = << >> THEN "none" ELSE notified[Len(notified)]

EndedInOuterHandler(j) == Has(j, "unexpected") /\ ProcessedToEnd(j)

C32_UnexpectedException ==
    /\ [](\A j \in JobIds :
              EndedInOuterHandler(j) =>
                  /\ jobs_db[j].status = "FAILED"
                  /\ jobs_db[j].error_message = "mkdir failed"
                  /\ LastNotification(j) = "notify_error")
    /\ [][\A w \in Workers :
              (wpc[w] = "set_error" /\ wpc'[w] # "set_error") =>
                  (wpc'[w] = "get" /\ wjob'[w] = NoJob /\ running')]_vars

\* A job ended in the outer handler and both workers, the one that handled
\* it among them, are processing other jobs.
C32_Witness ==
    \E j \in JobIds :
        /\ EndedInOuterHandler(j)
        /\ jobs_db[j].status = "FAILED"
        /\ \A w \in Workers : wpc[w] = "executing" /\ wjob[w] # j

(***************************************************************************)
(* C33: every key of active_downloads is a job some worker is processing,  *)
(* the table holds at most max_concurrent_downloads entries, and the       *)
(* active_downloads figure of get_system_status (line 465) is the number   *)
(* of jobs being processed by workers.                                     *)
(***************************************************************************)
\* Jobs inside a call of _process_download_job.
JobsInProcess == {wjob[w] : w \in {v \in Workers : InProcessCall(v)}}

C33_ActiveTable ==
    /\ active_downloads \subseteq JobsInProcess
    /\ Cardinality(active_downloads) <= pool_size
    /\ Cardinality(active_downloads) = Cardinality(JobsInProcess)

(***************************************************************************)
(* C34: in every state of a CircuitBreaker reached by can_execute,         *)
(* record_success and record_failure calls, CLOSED implies                 *)
(* failure_count < failure_threshold, and OPEN or HALF_OPEN implies        *)
(* failure_count >= failure_threshold with last_failure_time set.          *)
(***************************************************************************)
C34_BreakerInvariant ==
    /\ circuit_breaker.state \in {"CLOSED", "OPEN", "HALF_OPEN"}
    /\ circuit_breaker.state = "CLOSED" =>
           circuit_breaker.failure_count < circuit_breaker.failure_threshold
    /\ circuit_breaker.state \in {"OPEN", "HALF_OPEN"} =>
           /\ circuit_breaker.failure_count >= circuit_breaker.failure_threshold
           /\ circuit_breaker.last_failure_time # NoTime

\* The breaker is on trial for the second time: it has been closed by a
\* success in between and has counted more failures than its threshold.
C34_Witness ==
    /\ circuit_breaker.state = "HALF_OPEN"
    /\ circuit_breaker.failure_threshold > 1
    /\ circuit_breaker.failure_count > circuit_breaker.failure_threshold
    /\ LastCall = "can_execute"
    /\ \E i \in 1..Len(cb_trace) : cb_trace[i] = "record_success"

(***************************************************************************)
(* increment_user_downloads (database.py 190-220) on its own: MaxIncCalls  *)
(* calls for one user, made by the workers as their jobs end, each         *)
(* suspending in get_user and again in its update, while days pass.        *)
(***************************************************************************)
InitCounters == Init

\* Every variable but those of the users collection.
CountersFrame ==
    UNCHANGED << now, circuit_breaker, rate_limiter, running, download_queue,
                 active_downloads, wpc, wjob, wattempt, werror, jobs_db,
                 next_job, add_pc, cancel_pc, cancels, cancel_obs, exec_obs,
                 cb_obs_vars, rl_obs_vars, pool_size, job_obj, life_vars,
                 pending_ret, res_vars, fs_vars, cbk_vars, download_history,
                 sleep_obs, wgates, job_trace, mon_vars, dbm_vars >>

\* Midnight (UTC) passes.
NextDay ==
    /\ today < MaxDay
    /\ today' = today + 1
    /\ UNCHANGED << user_stats, user_daily, inc_calls >>
    /\ CountersFrame

\* lines 192-196: the call reads the clock and suspends in get_user.
IncrementBegin(c, failed) ==
    /\ inc_calls[c].pc = "idle"
    /\ inc_calls' = [inc_calls EXCEPT ![c] =
                        [@ EXCEPT !.pc = "get_user", !.failed = failed,
                                  !.date = today]]
    /\ UNCHANGED << today, user_stats, user_daily >>
    /\ CountersFrame

\* lines 196-198: find_one returns the user document; the call takes the
\* branch of line 198 on what it read and suspends in its update.
IncrementRead(c) ==
    /\ inc_calls[c].pc = "get_user"
    /\ inc_calls' = [inc_calls EXCEPT ![c] =
          [@ EXCEPT !.pc = IF user_daily.daily_downloads_reset < inc_calls[c].date
                           THEN "update_user" ELSE "update_one",
                    !.total_downloads = user_stats.total_downloads,
                    !.total_failed_downloads =
                        user_stats.total_failed_downloads]]
    /\ UNCHANGED << today, user_stats, user_daily >>
    /\ CountersFrame

\* lines 200-206: the $set of update_user, from the document read earlier.
SetCounters(stats, call) ==
    [total_downloads |->
        call.total_downloads + (IF call.failed THEN 0 ELSE 1),
     total_failed_downloads |->
        call.total_failed_downloads + (IF call.failed THEN 1 ELSE 0)]

\* lines 200-206: the update of the first call of a day lands.
IncrementSet(c) ==
    /\ inc_calls[c].pc = "update_user"
    /\ user_stats' = SetCounters(user_stats, inc_calls[c])
    /\ user_daily' = [daily_downloads |-> IF inc_calls[c].failed THEN 0 ELSE 1,
                      daily_downloads_reset |-> inc_calls[c].date]
    /\ inc_calls' = [inc_calls EXCEPT ![c].pc = "done"]
    /\ UNCHANGED today
    /\ CountersFrame

\* lines 208-218: the $inc lands.
IncrementInc(c) ==
    /\ inc_calls[c].pc = "update_one"
    /\ user_stats' = IncrementUser(user_stats, inc_calls[c].failed)
    /\ user_daily' = [user_daily EXCEPT !.daily_downloads =
                         @ + (IF inc_calls[c].failed THEN 0 ELSE 1)]
    /\ inc_calls' = [inc_calls EXCEPT ![c].pc = "done"]
    /\ UNCHANGED today
    /\ CountersFrame

NextCounters ==
    \/ NextDay
    \/ \E c \in IncCalls : \E failed \in BOOLEAN : IncrementBegin(c, failed)
    \/ \E c \in IncCalls : IncrementRead(c)
    \/ \E c \in IncCalls : IncrementSet(c)
    \/ \E c \in IncCalls : IncrementInc(c)

SpecCounters == InitCounters /\ [][NextCounters]_vars

(***************************************************************************)
(* C35: whatever the interleaving of the increment_user_downloads calls of *)
(* one owner, a day rollover included, once the calls made have returned   *)
(* total_downloads is the number of calls for a completed job and          *)
(* total_failed_downloads the number of calls for a failed job.            *)
(***************************************************************************)
ReturnedCalls(failed) ==
    {c \in IncCalls : inc_calls[c].pc = "done" /\ inc_calls[c].failed = failed}

NoCallUnderWay == \A c \in IncCalls : inc_calls[c].pc \in {"idle", "done"}

C35_NoIncrementLost ==
    NoCallUnderWay =>
        /\ user_stats.total_downloads = Cardinality(ReturnedCalls(FALSE))
        /\ user_stats.total_failed_downloads = Cardinality(ReturnedCalls(TRUE))

(***************************************************************************)
(* stop() and the executor calls in flight (download_manager.py 172-186,   *)
(* 429-436).                                                               *)
(***************************************************************************)
\* stop() returns in this step.
StopReturns == stop_pc = "gather" /\ stop_pc' = "idle"

\* C36: stop() does not return while an executor call started by a worker
\* is still running: as long as one runs, stop() is suspended and cannot
\* return, and the step in which it returns finds none running.
C36_StopWaitsForExecutor ==
    /\ [](orphan_threads # {} => stop_pc = "gather" /\ ~ENABLED StopReturn)
    /\ [][StopReturns => orphan_threads = {} /\ orphan_threads' = {}]_vars

\* Every worker task is done, the gather of stop() has nothing left to wait
\* for, and the executor thread of an interrupted job still runs.
C36_Witness ==
    /\ stop_pc = "gather"
    /\ \A w \in Workers : ~Alive(w)
    /\ orphan_threads # {}

(***************************************************************************)
(* stop() followed by start() on the same manager (download_manager.py     *)
(* 143-153, 158-186).  The executor is created once, in __init__; stop()   *)
(* shuts it down and start() does not create another.                      *)
(***************************************************************************)
\* start() has returned after a stop() and no stop() has been called since.
Restarted ==
    /\ life_obs.last = "start"
    /\ life_obs.stops >= 1
    /\ stop_pc = "idle"
    /\ running

\* C37: after stop() followed by start() the pool has exactly
\* max_concurrent_downloads live workers, and a worker that has reached the
\* executor call of a job can have the executor invoked and return a file,
\* which takes the job on to its COMPLETED update.
C37_Restart ==
    Restarted
        => /\ WorkersRunning = pool_size
           /\ \A w \in Workers :
                 wpc[w] = "executing" => ENABLED ExecutorSucceeds(w)

(***************************************************************************)
(* An executor call that does not return (download_manager.py 143-145,     *)
(* 418-436).  download_timeout is stored at line 145 and read nowhere;     *)
(* the call of lines 431-434 is awaited with no time limit, and what it    *)
(* runs, handlers.downloader, is outside the manager: nothing the manager  *)
(* does makes it return.                                                   *)
(***************************************************************************)
\* One step of worker task w that needs only the event loop and the store:
\* every step of WorkerStep but the return of the executor call.
WorkerStepReady(w) ==
    \/ DequeueCircuitOpen(w)
    \/ DequeueResourcesLow(w)
    \/ DequeueRateLimited(w)
    \/ DequeueAdmit(w)
    \/ RateWaitRetry(w)
    \/ SleepDone(w)
    \/ SleepErrorDone(w)
    \/ SetDownloading(w)
    \/ SetDownloadingMkdirFails(w)
    \/ BackoffDone(w)
    \/ SetCompleted(w)
    \/ AddHistory(w)
    \/ SetFailedLands(w)
    \/ IncrementUserDone(w)
    \/ SetErrorLands(w)

\* Fair scheduling as in Fairness, without the assumption that an executor
\* call returns.
FairnessHang ==
    /\ WF_vars(Elapse)
    /\ WF_vars(Start)
    /\ WF_vars(AddJobEnqueue)
    /\ \A w \in Workers : WF_vars(WorkerStepReady(w))
    /\ \A w \in Workers : SF_vars(DequeueAdmit(w))

SpecHang == InitFaults /\ [][NextLive]_vars /\ FairnessHang

\* C38: a worker is never blocked for ever by one executor call, whether
\* the call returns or not: the attempt ends, and the job the worker holds
\* reaches a terminal status.
C38_AttemptBounded ==
    \A w \in Workers :
        /\ (wpc[w] = "executing") ~> (wpc[w] # "executing")
        /\ \A j \in JobIds :
              (wpc[w] = "executing" /\ wjob[w] = j) ~> TerminalStatus(j)

(***************************************************************************)
(* The batch monitor (production_pro.py 142, 149-230): one task per batch, *)
(* which every 10 seconds reads the durable record of each job of the      *)
(* batch and hands completed jobs to handle_completed_download.  The       *)
(* download manager is seen through the store only: its writes to the      *)
(* records of the batch are the steps of ManagerWrite.                     *)
(***************************************************************************)
MonitorFrame ==
    UNCHANGED << now, circuit_breaker, rate_limiter, running, download_queue,
                 active_downloads, wpc, wjob, wattempt, werror,
                 next_job, add_pc, cancel_pc, cancels, cancel_obs, exec_obs,
                 cb_obs_vars, rl_obs_vars, pool_size, job_obj, life_vars,
                 pending_ret, res_vars, fs_vars, cbk_vars, stats_vars,
                 wgates, job_trace, usr_vars, dbm_vars >>

\* Lines 95-142: add_download_job for every link of the batch (`stored`:
\* the jobs whose insert reached the store), then the monitor task is
\* created and runs to its first sleep (the loop test of line 164 passes,
\* job_ids is not empty).
BatchQueued(stored) ==
    /\ monitor.pc = "unborn"
    /\ stored \subseteq BatchIds
    /\ jobs_db' = [j \in JobIds |-> IF j \in stored THEN NewJobRecord
                                    ELSE jobs_db[j]]
    /\ monitor' = [monitor EXCEPT !.pc = "sleep"]
    /\ MonitorFrame

\* A write of the manager to the record of job j of the batch:
\* DOWNLOADING when a worker takes the job (download_manager.py 296),
\* COMPLETED after a successful attempt (347-352), FAILED after the last
\* failed attempt, an unexpected exception (372-377, 403-407) or
\* cancel_download, which writes FAILED whatever the status is (239).
ManagerWrite(j, st) ==
    /\ monitor.pc \notin {"unborn", "done"}
    /\ j \in BatchIds
    /\ \/ st = "DOWNLOADING" /\ jobs_db[j].status = "PENDING"
       \/ st = "COMPLETED" /\ jobs_db[j].status = "DOWNLOADING"
       \/ st = "FAILED" /\ jobs_db[j].status \in {"PENDING", "DOWNLOADING",
                                                   "COMPLETED"}
    /\ jobs_db' = SetStatus(jobs_db, j, st)
    /\ UNCHANGED monitor
    /\ MonitorFrame

\* The sleep of line 165 ends: a pass over job_ids begins (167-169).
MonitorWake ==
    /\ monitor.pc = "sleep"
    /\ monitor' = [monitor EXCEPT !.pc = "get_job", !.idx = 1,
                                  !.current_completed = 0,
                                  !.current_failed = 0]
    /\ UNCHANGED jobs_db
    /\ MonitorFrame

\* The monitor, in state m, is done with the job at m.idx: the next job of
\* the pass, or the end of the pass (lines 188-190: the totals are replaced
\* when they differ; the loop test of line 164).
MonitorNext(m) ==
    IF m.idx < MaxBatch
    THEN [m EXCEPT !.pc = "get_job", !.idx = @ + 1]
    ELSE LET changed == \/ m.current_completed # m.completed_jobs
                        \/ m.current_failed # m.failed_jobs
             cj == IF changed THEN m.current_completed ELSE m.completed_jobs
             fj == IF changed THEN m.current_failed ELSE m.failed_jobs
         IN  [m EXCEPT !.completed_jobs = cj, !.failed_jobs = fj,
                       !.pc = IF cj + fj < MaxBatch THEN "sleep" ELSE "final"]

\* get_download_job (line 172; database.py 235-246) returns: the record, or
\* None when there is none or find_one raised (`found` false).  Lines
\* 173-185: a COMPLETED job is counted and the monitor goes on to
\* get_user_jobs; a FAILED job is counted.
MonitorGetJob(found) ==
    /\ monitor.pc = "get_job"
    /\ LET j == monitor.idx
           st == IF found THEN jobs_db[j].status ELSE "ABSENT"
       IN  monitor' =
             IF st = "COMPLETED"
             THEN [monitor EXCEPT !.current_completed = @ + 1,
                                  !.seen_completed[j] = TRUE,
                                  !.pc = "get_user_jobs"]
             ELSE IF st = "FAILED"
             THEN MonitorNext([monitor EXCEPT !.current_failed = @ + 1])
             ELSE MonitorNext(monitor)
    /\ UNCHANGED jobs_db
    /\ MonitorFrame

\* get_user_jobs(user_id, COMPLETED) (database.py 280-298): the user's jobs
\* whose status is COMPLETED (every job of the batch is the user's), or the
\* empty list when the query raised.
UserJobsCompleted(db, ok) ==
    IF ok THEN {j \in JobIds : db[j].status = "COMPLETED"} ELSE {}

\* Line 178: get_user_jobs returns; the job is handed to the upload step
\* when it is not in the list.
MonitorGetUserJobs(ok) ==
    /\ monitor.pc = "get_user_jobs"
    /\ LET j == monitor.idx
       IN  IF j \notin UserJobsCompleted(jobs_db, ok)
           THEN /\ monitor.handed[j] < MaxHanded
                /\ monitor' = [monitor EXCEPT !.pc = "upload"]
           ELSE monitor' = MonitorNext(monitor)
    /\ UNCHANGED jobs_db
    /\ MonitorFrame

\* Line 179: handle_completed_download (233-286) returns; it catches its
\* own exceptions.
MonitorUploadReturns ==
    /\ monitor.pc = "upload"
    /\ monitor' = MonitorNext([monitor EXCEPT !.handed[monitor.idx] = @ + 1])
    /\ UNCHANGED jobs_db
    /\ MonitorFrame

\* Lines 216-227: the final summary; the task ends.
MonitorFinal ==
    /\ monitor.pc = "final"
    /\ monitor' = [monitor EXCEPT !.pc = "done"]
    /\ UNCHANGED jobs_db
    /\ MonitorFrame

NextMonitor ==
    \/ \E stored \in SUBSET BatchIds : BatchQueued(stored)
    \/ \E j \in BatchIds : \E st \in Statuses : ManagerWrite(j, st)
    \/ MonitorWake
    \/ \E found \in BOOLEAN : MonitorGetJob(found)
    \/ \E ok \in BOOLEAN : MonitorGetUserJobs(ok)
    \/ MonitorUploadReturns
    \/ MonitorFinal

SpecMonitor == Init /\ [][NextMonitor]_vars

\* C39: every job of the batch that the monitor observed with durable
\* status COMPLETED is handed to handle_completed_download exactly once
\* over the life of the monitor loop: never twice, and once when the loop
\* has ended.
C39_UploadOnce ==
    \A j \in BatchIds :
        /\ monitor.handed[j] <= 1
        /\ (monitor.pc \in {"final", "done"} /\ monitor.seen_completed[j])
              => monitor.handed[j] = 1

(***************************************************************************)
(* DatabaseManager.connect, disconnect and _ensure_connection              *)
(* (database.py 20-79, 110-113), called by tasks that share one manager.   *)
(* client, db and _collections are kept as "set or not".                   *)
(***************************************************************************)
ConnectFrame ==
    UNCHANGED << now, circuit_breaker, rate_limiter, running, download_queue,
                 active_downloads, wpc, wjob, wattempt, werror, jobs_db,
                 next_job, add_pc, cancel_pc, cancels, cancel_obs, exec_obs,
                 cb_obs_vars, rl_obs_vars, pool_size, job_obj, life_vars,
                 pending_ret, res_vars, fs_vars, cbk_vars, stats_vars,
                 wgates, job_trace, usr_vars, mon_vars >>

\* The except clause of lines 66-70 in attempt k of a call: the exception
\* is raised again on the last attempt, which leaves the lock's block and
\* ends the call; otherwise the call sleeps.  The pair is << dbm, conn[c] >>
\* after it.
AttemptRaised(d, k) ==
    IF k = connect_max_retries - 1
    THEN << [d EXCEPT !.lock = NoCaller, !.last = "raised"], IdleCaller >>
    ELSE << d, [pc |-> "sleep", attempt |-> k] >>

\* Lines 36-48 of attempt k: self.client = AsyncIOMotorClient(...) and the
\* call suspends in the ping; `made` false: the constructor raised, client
\* is as it was.
AttemptStart(d, k, made) ==
    IF made
    THEN << [d EXCEPT !.client = TRUE], [pc |-> "ping", attempt |-> k] >>
    ELSE AttemptRaised(d, k)

\* Lines 30-35: caller c holds the lock; the call returns at once when
\* client is set, else the first attempt starts.
LockHeld(d, c, made) ==
    IF d.client
    THEN << [d EXCEPT !.lock = NoCaller, !.last = "returned"], IdleCaller >>
    ELSE AttemptStart([d EXCEPT !.lock = c], 0, made)

\* Caller c calls connect() (line 28), or _ensure_connection() (110-113),
\* which calls connect() when client is None and returns otherwise.  A
\* caller that finds the lock taken waits for it.
ConnectCall(c, ensure, made) ==
    /\ conn[c].pc = "idle"
    /\ dbm.calls < MaxConnCalls
    /\ LET d == [dbm EXCEPT !.calls = @ + 1]
           after == LockHeld(d, c, made)
       IN  IF ensure /\ dbm.client
           THEN dbm' = [d EXCEPT !.last = "ensured"] /\ UNCHANGED conn
           ELSE IF dbm.lock # NoCaller
           THEN /\ dbm' = d
                /\ conn' = [conn EXCEPT ![c] = [pc |-> "lock", attempt |-> 0]]
           ELSE /\ dbm' = after[1]
                /\ conn' = [conn EXCEPT ![c] = after[2]]
    /\ ConnectFrame

\* The lock is released and handed to the waiting caller c.
LockGranted(c, made) ==
    /\ conn[c].pc = "lock"
    /\ dbm.lock = NoCaller
    /\ LET after == LockHeld(dbm, c, made)
       IN  /\ dbm' = after[1]
           /\ conn' = [conn EXCEPT ![c] = after[2]]
    /\ ConnectFrame

\* Lines 48-61: the ping returns; db and the collection handles are set and
\* the call suspends in _create_indexes.
PingReturns(c) ==
    /\ conn[c].pc = "ping"
    /\ dbm' = [dbm EXCEPT !.db = TRUE, !.collections = TRUE]
    /\ conn' = [conn EXCEPT ![c].pc = "indexes"]
    /\ ConnectFrame

\* Lines 48, 66-70: the ping raises.
PingRaises(c) ==
    /\ conn[c].pc = "ping"
    /\ LET after == AttemptRaised(dbm, conn[c].attempt)
       IN  /\ dbm' = after[1]
           /\ conn' = [conn EXCEPT ![c] = after[2]]
    /\ ConnectFrame

\* Lines 70, 35-48: the backoff sleep ends and the next attempt starts.
ConnectSleepDone(c, made) ==
    /\ conn[c].pc = "sleep"
    /\ LET after == AttemptStart(dbm, conn[c].attempt + 1, made)
       IN  /\ dbm' = after[1]
           /\ conn' = [conn EXCEPT ![c] = after[2]]
    /\ ConnectFrame

\* Lines 61-64: _create_indexes returns (it catches its own exceptions,
\* 81-108) and connect() returns.
IndexesReturn(c) ==
    /\ conn[c].pc = "indexes"
    /\ dbm' = [dbm EXCEPT !.lock = NoCaller, !.last = "returned"]
    /\ conn' = [conn EXCEPT ![c] = IdleCaller]
    /\ ConnectFrame

\* disconnect() (lines 72-79), as main.py calls it: at shutdown, with no
\* connect() under way.
Disconnect ==
    /\ dbm.lock = NoCaller
    /\ dbm.calls < MaxConnCalls
    /\ dbm' = IF dbm.client
              THEN [dbm EXCEPT !.client = FALSE, !.db = FALSE,
                               !.collections = FALSE, !.calls = @ + 1,
                               !.last = "disconnected"]
              ELSE [dbm EXCEPT !.calls = @ + 1, !.last = "disconnected"]
    /\ UNCHANGED conn
    /\ ConnectFrame

NextConnect ==
    \/ \E c \in Callers : \E ensure, made \in BOOLEAN : ConnectCall(c, ensure, made)
    \/ \E c \in Callers : \E made \in BOOLEAN : LockGranted(c, made)
    \/ \E c \in Callers : PingReturns(c)
    \/ \E c \in Callers : PingRaises(c)
    \/ \E c \in Callers : \E made \in BOOLEAN : ConnectSleepDone(c, made)
    \/ \E c \in Callers : IndexesReturn(c)
    \/ Disconnect

SpecConnect == Init /\ [][NextConnect]_vars

\* No connect() call holds the lock, and the last call to end was connect().
AfterConnect ==
    /\ dbm.lock = NoCaller
    /\ dbm.last \in {"returned", "raised"}

\* C40: in every state reached after connect() returns or raises, client
\* is set if and only if the collection handles are initialised; after
\* connect() has failed all its attempts and raised, client is not set, so
\* that a later connect() or _ensure_connection() connects again.
C40_ClientIffCollections ==
    AfterConnect
        => /\ dbm.client <=> dbm.collections
           /\ dbm.last = "raised" => ~dbm.client

====
